---- MODULE Spec2Model ----
(***************************************************************************)
(* A model of the feature tracking pipeline of the repository:             *)
(*   - ImageTracker (src/src/utils/tracker.ts): the descriptor matcher     *)
(*     with Lowe's ratio test and the RANSAC-like geometric verifier;      *)
(*   - the frame loop of the Camera component (src/src/components/         *)
(*     Camera.tsx, lines 12-463) with its stability counter.               *)
(*   - the Camera component with the frame-count guard (src/src/types/     *)
(*     tracking.ts, lines 35-330) over the distance matcher of             *)
(*     src/unnamed/part_001, lines 348-413;                                *)
(*   - FrameProcessor (src/src/utils/frameProcessor.ts): the two entry     *)
(*     points that fetch a frame, and processImage;                        *)
(*   - one session of the tracking effect, split at the await of           *)
(*     processFrame, with the cleanup of the effect;                       *)
(*   - getRandomIndices (tracker.ts 463-469) stepped one draw at a time;   *)
(*   - two ImageTracker instances used in turn by two sessions;            *)
(*   - detectFeatures (frameProcessor.ts 127-229) stepped one row of       *)
(*     cells at a time.                                                    *)
(*                                                                         *)
(* Conventions.                                                            *)
(*   - Sequences are 1-based: the source's index k is k + 1 here, and the  *)
(*     source's "no index" value -1 is 0 here.                             *)
(*   - Point coordinates and descriptor entries are integers.  A distance  *)
(*     is represented by its square (Math.sqrt is strictly monotone on the *)
(*     values compared), a quotient by a pair <<numerator, denominator>>;  *)
(*     comparisons are done exactly by cross multiplication.               *)
(***************************************************************************)
EXTENDS Integers, Sequences, FiniteSets, TLC

VARIABLES
  \* ---- ImageTracker fields (tracker.ts 4-16)
  trackingData,        \* the constructor's argument
  targetPoints, targetWidth, targetHeight, targetDescriptor,
  targetFingerprint, targetImageLoaded, colorHistogram,
  lastConsistencyRatio, lastMatches, debugInfo,
  \* ---- one call of matchFeatures / verifyGeometry
  pc,                  \* "idle" | "verify" (inside verifyGeometry's loop)
  caller,              \* who entered verifyGeometry: "matchFeatures" | "direct"
  framePoints, frameDescriptors,   \* arguments of the current / last call
  matches,             \* descriptor matches handed to verifyGeometry
  iter,                \* iterations run (one getRandomIndices call each)
  bestInliers, bestRatio,          \* locals of verifyGeometry
  iterResults,         \* history: the set of checkInliers' results in this call
  verifyResult,        \* value returned by the current call of verifyGeometry
  returned,            \* outcome of the current call of matchFeatures
  \* ---- Camera component: React state (Camera.tsx 20-42)
  isTracking, trackingConfirmed, testMode,
  trackingStartFrameCount, lastFrameWasTracking,
  \* ---- Camera component: refs, which outlive every run of the effect
  trackingStabilityCounter, lastFramesRef,
  \* ---- Camera component: the tracking effect
  closure,             \* the state values processFrame was created with
  frameData,           \* what getFrameData returned for the last frame
  frameMatches,        \* the local "matches" of the last frame
  lastDecision,        \* "none" | "blank" | "good" | "fail": the last frame
  goodRun,             \* history: good frames since the last failing frame
  lastUpdate,          \* last value handed to onTrackingUpdate, or "none"
  \* ---- descriptors of a session
  compared,            \* the last pair of descriptors computeDistance was given
  \* ---- Camera variant with the frame-count guard (types/tracking.ts 35-187)
  frameCountRef,       \* frames since the last call of setIsTracking
  lastAverage,         \* averageMatches of the last frame with points
  lastChanged,         \* history: the last frame changed isTracking
  framesSinceChange,   \* history: frames with points since isTracking changed
  changeAfter,         \* history: value of framesSinceChange at the last change
  \* ---- Camera component: histories of the frame loop
  targetRun,           \* regular-mode frames in a row that showed the target
  changeRun,           \* frames with points in a row that each changed isTracking
  \* ---- FrameProcessor (frameProcessor.ts 18-27) and the wall clock
  now,                 \* Date.now()
  lastProcessTime,     \* the field of the current FrameProcessor
  entryPoint,          \* "none" | "processFrame" | "getFrameData": the last call
  detected,            \* the last call ran the feature detector
  lastDetectTime,      \* history: time of the last run of the detector, or NoTime
  detectGap,           \* history: time between the last two runs, or NoTime
  \* ---- one session of the tracking effect: its frame loop and its cleanup
  variant,             \* "stability" | "guard" | "latch": which Camera component
  loopPc,              \* "idle" | "suspended": processFrame is at its await
  rafPending,          \* the callback of requestAnimationFrame is pending
  streamPending,       \* getUserMedia / onloadedmetadata has not fired yet
  tornDown,            \* the cleanup of the effect has run
  framesProcessed,     \* history: frames processed by this session
  requestedAfterTeardown,   \* history: requestAnimationFrame after the cleanup
  processedAfterTeardown,   \* history: a frame was processed after the cleanup
  \* ---- Camera component: the last frame, when a step of it threw
  thrownAt,            \* "none", or the step of the last frame that threw
  preTracking,         \* history: isTracking before a frame that threw
  preCounter,          \* history: the stability counter before such a frame
  nextFrameRequested,  \* the last frame called requestAnimationFrame
  \* ---- building the reference model (App.tsx 187-238, tracker.ts 18-57)
  uploaded,            \* the image handed to processImage, or NoImage
  appTrackingData,     \* the state "trackingData" of App; NullTD while null
  lastBuild,           \* the last building step and whether it threw
  \* ---- one call of getRandomIndices (tracker.ts 463-469)
  drawPc,              \* "idle", "loop" (in the while loop) or "returned"
  drawCount, drawMax,  \* the arguments count and max
  indices,             \* the Set "indices", in insertion order
  \* ---- calls of the prop onTrackingUpdate (Camera.tsx 357)
  notified,            \* history: the arguments of the last two calls
  \* ---- two sessions, each with its ImageTracker and its FrameProcessor
  session,             \* "A" or "B": the session whose fields the variables above show
  other,               \* the fields of the instances of the other session
  \* ---- one call of detectFeatures (frameProcessor.ts 127-229)
  dPc,                 \* "idle", "cells" (in the loop over the cells) or "returned"
  dImage, dDetailed, dMaxPoints,  \* the arguments imageData, detailed, maxPoints
  dCell,               \* the number of cells processed: cellY * cellsX
  dPoints,             \* the array "points"
  dCellCount,          \* history: the most points a cell of the last row added
  dCapped,             \* history: some cell had more points than it added
  dResult,             \* the list returned
  dProcessTime,        \* history: lastProcessTime when this call began
  previous             \* history: an earlier call, its arguments and result

trackerVars == <<trackingData, targetPoints, targetWidth, targetHeight,
                 targetDescriptor, targetFingerprint, targetImageLoaded,
                 colorHistogram, lastConsistencyRatio, lastMatches, debugInfo>>
callVars == <<pc, caller, framePoints, frameDescriptors, matches, iter,
              bestInliers, bestRatio, iterResults, verifyResult,
              returned>>
cameraVars == <<isTracking, trackingConfirmed, testMode, trackingStartFrameCount,
                lastFrameWasTracking, trackingStabilityCounter, lastFramesRef,
                closure, frameData, frameMatches, lastDecision, goodRun, lastUpdate>>
guardVars == <<frameCountRef, lastAverage, lastChanged, framesSinceChange, changeAfter>>
runVars == <<targetRun, changeRun>>
clockVars == <<now, lastProcessTime, entryPoint, detected, lastDetectTime, detectGap>>
teardownVars == <<variant, loopPc, rafPending, streamPending, tornDown,
                  framesProcessed, requestedAfterTeardown, processedAfterTeardown>>
throwVars == <<thrownAt, preTracking, preCounter, nextFrameRequested>>
buildVars == <<uploaded, appTrackingData, lastBuild>>
drawVars == <<drawPc, drawCount, drawMax, indices>>
sessionVars == <<session, other>>
detectVars == <<dPc, dImage, dDetailed, dMaxPoints, dCell, dPoints, dCellCount,
                dCapped, dResult, dProcessTime, previous>>
extraVars == <<drawVars, notified, sessionVars, detectVars>>
auxVars == <<clockVars, teardownVars, throwVars, buildVars, extraVars>>
loopVars == <<guardVars, runVars, auxVars>>
vars == <<trackerVars, callVars, cameraVars, compared, loopVars>>

----------------------------------------------------------------------------
(* Bounds of the model *)

MaxSmall == 1     \* longest exhaustively enumerated point list
MaxDescs == 2     \* longest exhaustively enumerated descriptor list
MaxGood == 10     \* scale-consistent correspondences in a generated scene
MaxBad == 2       \* adversarial correspondences in a generated scene
MaxCounter == 21  \* largest value of the stability counter
MaxRun == 4       \* longest recorded run of frames in the Camera histories

(* Program constants *)

MIN_MATCHES == 8          \* matchFeatures: "if (matches.length < 8)"
VERIFY_MIN_MATCHES == 8   \* verifyGeometry: "if (matches.length < 8)"
MAX_ITERATIONS == 5
SAMPLE_SIZE == 4
TOP_MATCHES == 100        \* ".slice(0, 100)"
FINGERPRINT_POINTS == 30  \* createSpatialFingerprint needs 30 target points
COLOR_MIN_INLIERS == 8
BBOX_MIN == 30
Infinity == -1            \* the value "Infinity" of a distance
ratioThreshold == <<7, 10>>     \* 0.7
SCALE_TOLERANCE == <<1, 4>>     \* 0.25

TRACKING_STABILITY_THRESHOLD == 20
START_TRACKING_THRESHOLD == 15
STOP_TRACKING_THRESHOLD == 10
MIN_MATCH_QUALITY == <<4, 10>>
MAINTAIN_MATCH_QUALITY == <<3, 10>>
GRID_SIZE == 8
MAX_FRAMES == 5
MIN_REGION_POINTS == 50   \* "if (pointsInRegion < 50)"
FORCED_MATCHES == 30      \* "Math.min(30, frameData.points.length)"
START_DELAY_FRAMES == 3   \* "newCount >= 3"

----------------------------------------------------------------------------
(* Exact arithmetic on quotients <<n, d>> with d > 0 *)

RLess(a, b) == a[1] * b[2] < b[1] * a[2]
REq(a, b) == a[1] * b[2] = b[1] * a[2]
RAdd(a, b) == <<a[1] * b[2] + b[1] * a[2], a[2] * b[2]>>
RMul(a, b) == <<a[1] * b[1], a[2] * b[2]>>
RMin(a, b) == IF RLess(b, a) THEN b ELSE a
Min(a, b) == IF b < a THEN b ELSE a

(* A quotient in lowest terms: the same number, kept small *)
RECURSIVE Gcd(_, _)
Gcd(a, b) == IF b = 0 THEN a ELSE Gcd(b, a % b)
RNorm(q) == IF q[1] = 0 THEN <<0, 1>>
            ELSE LET g == Gcd(q[1], q[2]) IN <<q[1] \div g, q[2] \div g>>

(* Comparison of squared distances, one of which may be Infinity *)
DistLess(a, b) == a # Infinity /\ (b = Infinity \/ a < b)

----------------------------------------------------------------------------
(* ImageTracker: descriptor matching (tracker.ts 266-304, 450-461) *)

RECURSIVE SumSqDiff(_, _, _)
SumSqDiff(desc1, desc2, i) ==
  IF i = 0 THEN 0
  ELSE SumSqDiff(desc1, desc2, i - 1)
         + (desc1[i] - desc2[i]) * (desc1[i] - desc2[i])

(* The square of computeDistance: the sum runs over the common prefix of the
   two descriptors, Math.min(desc1.length, desc2.length). *)
computeDistanceSq(desc1, desc2) ==
  SumSqDiff(desc1, desc2, Min(Len(desc1), Len(desc2)))

(* One pass of the inner loop over the reference descriptors, from trainIdx on. *)
RECURSIVE ScanTargets(_, _, _, _)
ScanTargets(frameDesc, tds, trainIdx, acc) ==
  IF trainIdx > Len(tds) THEN acc
  ELSE LET distance == computeDistanceSq(frameDesc, tds[trainIdx])
       IN ScanTargets(frameDesc, tds, trainIdx + 1,
            IF DistLess(distance, acc.bestDist)
              THEN [bestDist |-> distance, secondBestDist |-> acc.bestDist,
                    bestIdx |-> trainIdx]
            ELSE IF DistLess(distance, acc.secondBestDist)
              THEN [acc EXCEPT !.secondBestDist = distance]
            ELSE acc)

BestTwo(frameDesc, tds) ==
  ScanTargets(frameDesc, tds, 1,
              [bestDist |-> Infinity, secondBestDist |-> Infinity, bestIdx |-> 0])

(* "bestDist < ratioThreshold * secondBestDist", both sides squared. *)
RatioTestBuggy(bestDist, secondBestDist, ratio) ==
  /\ bestDist # Infinity
  /\ \/ secondBestDist = Infinity
     \/ ratio[2] * ratio[2] * bestDist <= ratio[1] * ratio[1] * secondBestDist

RatioTest(bestDist, secondBestDist, ratio) ==
  /\ bestDist # Infinity
  /\ \/ secondBestDist = Infinity
     \/ ratio[2] * ratio[2] * bestDist < ratio[1] * ratio[1] * secondBestDist

(* The outer loop: the matches pushed, one at most for each queryIdx. *)
PushedMatches(fds, tds, ratio) ==
  {[queryIdx |-> q, trainIdx |-> BestTwo(fds[q], tds).bestIdx,
    distanceSq |-> BestTwo(fds[q], tds).bestDist] :
     q \in {i \in 1..Len(fds) :
              RatioTest(BestTwo(fds[i], tds).bestDist,
                        BestTwo(fds[i], tds).secondBestDist, ratio)}}

(* matches.sort((a, b) => a.distance - b.distance) on the array pushed in
   order of queryIdx: a stable sort, so that the place of a match is the number
   of matches of smaller distance, or of equal distance and no larger
   queryIdx. *)
SortByDistance(pushed) ==
  LET place == [m \in pushed |->
                  Cardinality({a \in pushed :
                     \/ a.distanceSq < m.distanceSq
                     \/ a.distanceSq = m.distanceSq /\ a.queryIdx <= m.queryIdx})]
  IN [k \in 1..Cardinality(pushed) |-> CHOOSE m \in pushed : place[m] = k]

sliceTopBuggy(ms, n) == ms

(* ".slice(0, n)" *)
sliceTop(ms, n) == SubSeq(ms, 1, Min(n, Len(ms)))

findBestMatchesWithRatioTest(fds, tds, ratio) ==
  sliceTop(SortByDistance(PushedMatches(fds, tds, ratio)), TOP_MATCHES)

----------------------------------------------------------------------------
(* ImageTracker: geometric verification (tracker.ts 306-407, 463-475) *)

getDistanceSq(p1, p2) ==
  (p1.x - p2.x) * (p1.x - p2.x) + (p1.y - p2.y) * (p1.y - p2.y)

(* getRandomIndices(count, max): the sets of indices the loop can return,
   min(count, max) distinct values of Math.floor(Math.random() * max). *)
getRandomIndices(count, max) ==
  {S \in SUBSET (1..max) : Cardinality(S) = Min(count, max)}

(* A set of indices as a sequence in increasing order.  checkInliers does not
   depend on the order of its samples: the scales are sorted, and a candidate
   is consistent iff it is consistent with every sample. *)
RECURSIVE SetToSeq(_)
SetToSeq(S) ==
  IF S = {} THEN <<>>
  ELSE LET m == CHOOSE x \in S : \A y \in S : y <= x
       IN Append(SetToSeq(S \ {m}), m)

(* The pairs (i, j), i < j, of the double loop over the samples. *)
RECURSIVE SamplePairs(_, _, _)
SamplePairs(i, j, n) ==
  IF i > n THEN <<>>
  ELSE IF j > n THEN SamplePairs(i + 1, i + 2, n)
  ELSE <<<<i, j>>>> \o SamplePairs(i, j + 1, n)

ValidIdx(i, seq) == i \in 1..Len(seq)

(* The scales (squared, as quotients) of the sample pairs whose target
   distance is positive. *)
RECURSIVE SampleScales(_, _, _, _)
SampleScales(pairs, samples, fps, tps) ==
  IF pairs = <<>> THEN <<>>
  ELSE LET i == pairs[1][1]
           j == pairs[1][2]
           f == getDistanceSq(fps[samples[i].queryIdx], fps[samples[j].queryIdx])
           t == getDistanceSq(tps[samples[i].trainIdx], tps[samples[j].trainIdx])
           rest == SampleScales(Tail(pairs), samples, fps, tps)
       IN IF t > 0 THEN <<<<f, t>>>> \o rest ELSE rest

(* scales.sort((a, b) => a - b) *)
RECURSIVE InsertScale(_, _)
InsertScale(sorted, s) ==
  IF sorted = <<>> THEN <<s>>
  ELSE IF ~RLess(s, sorted[Len(sorted)]) THEN Append(sorted, s)
  ELSE Append(InsertScale(SubSeq(sorted, 1, Len(sorted) - 1), s),
              sorted[Len(sorted)])

RECURSIVE SortScales(_, _)
SortScales(ss, n) ==
  IF n = 0 THEN <<>> ELSE InsertScale(SortScales(ss, n - 1), ss[n])

(* scales[Math.floor(scales.length / 2)] *)
MedianScale(sorted) == sorted[(Len(sorted) \div 2) + 1]

(* "Math.abs(scale - scaleEstimate) / scaleEstimate > SCALE_TOLERANCE" for the
   squared scales s = scale^2 and e = scaleEstimate^2.  With scaleEstimate = 0
   the quotient is Infinity (scale > 0: inconsistent) or NaN (scale = 0: the
   comparison is false). *)
ScaleDeviates(s, e, tol) ==
  IF e[1] = 0 THEN s[1] > 0
  ELSE LET hi == <<(tol[2] + tol[1]) * (tol[2] + tol[1]), tol[2] * tol[2]>>
           lo == <<(tol[2] - tol[1]) * (tol[2] - tol[1]), tol[2] * tol[2]>>
       IN \/ RLess(RMul(hi, RNorm(e)), RNorm(s))
          \/ RLess(RNorm(s), RMul(lo, RNorm(e)))

(* The inner loop over the samples for one candidate match. *)
IsConsistent(match, samples, fps, tps, est) ==
  \A k \in 1..Len(samples) :
    LET sample == samples[k]
    IN \/ match.queryIdx = sample.queryIdx
       \/ LET f == getDistanceSq(fps[match.queryIdx], fps[sample.queryIdx])
              t == getDistanceSq(tps[match.trainIdx], tps[sample.trainIdx])
          IN t = 0 \/ ~ScaleDeviates(<<f, t>>, est, SCALE_TOLERANCE)

RECURSIVE FilterInliers(_, _, _, _, _, _)
FilterInliers(all, n, samples, fps, tps, est) ==
  IF n = 0 THEN <<>>
  ELSE LET rest == FilterInliers(all, n - 1, samples, fps, tps, est)
       IN IF IsConsistent(all[n], samples, fps, tps, est)
            THEN Append(rest, all[n]) ELSE rest

(* Whether checkInliers reads a coordinate of an undefined point, which is a
   TypeError: a sample's point in the first loop, or a candidate's point when
   it is compared with the first sample of another queryIdx. *)
CheckInliersThrows(samples, all, fps, tps) ==
  LET badMatch(m) == ~ValidIdx(m.queryIdx, fps) \/ ~ValidIdx(m.trainIdx, tps)
      badSample == Len(samples) >= 2 /\ \E k \in 1..Len(samples) : badMatch(samples[k])
      scales == SampleScales(SamplePairs(1, 2, Len(samples)), samples, fps, tps)
  IN \/ badSample
     \/ /\ scales # <<>>
        /\ \E n \in 1..Len(all) :
             /\ badMatch(all[n])
             /\ \E k \in 1..Len(samples) : samples[k].queryIdx # all[n].queryIdx

inlierRatio(inliers, all) ==
  IF Len(all) > 0 /\ Len(inliers) > 0 THEN <<Len(inliers), Len(all)>> ELSE <<0, 1>>

checkInliers(samples, all, fps, tps) ==
  IF CheckInliersThrows(samples, all, fps, tps)
    THEN [threw |-> TRUE, inliers |-> <<>>, ratio |-> <<0, 1>>]
  ELSE LET scales == SampleScales(SamplePairs(1, 2, Len(samples)), samples, fps, tps)
       IN IF scales = <<>>
            THEN [threw |-> FALSE, inliers |-> <<>>, ratio |-> <<0, 1>>]
          ELSE LET est == MedianScale(SortScales(scales, Len(scales)))
                   inliers == FilterInliers(all, Len(all), samples, fps, tps, est)
               IN [threw |-> FALSE, inliers |-> inliers,
                   ratio |-> inlierRatio(inliers, all)]

(* The matches at the sampled indices: sampleIndices.map(idx => matches[idx]) *)
SamplesAt(S, ms) ==
  LET idx == SetToSeq(S) IN [k \in 1..Len(idx) |-> ms[idx[k]]]

----------------------------------------------------------------------------
(* ImageTracker: match quality (tracker.ts 237-263, 477-516) *)

SeqMin(s) == CHOOSE v \in {s[i] : i \in 1..Len(s)} : \A i \in 1..Len(s) : v <= s[i]
SeqMax(s) == CHOOSE v \in {s[i] : i \in 1..Len(s)} : \A i \in 1..Len(s) : v >= s[i]

getBoundingBox(points) ==
  LET xs == [i \in 1..Len(points) |-> points[i].x]
      ys == [i \in 1..Len(points) |-> points[i].y]
  IN [x |-> SeqMin(xs), y |-> SeqMin(ys),
      width |-> SeqMax(xs) - SeqMin(xs), height |-> SeqMax(ys) - SeqMin(ys)]

(* "Math.min(0.95, this.debugInfo.inlierRatio * 1.2)", or 0 without a loaded
   target image and histogram. *)
evaluateColorSimilarity(loaded, histogram, ratio) ==
  IF ~loaded \/ Len(histogram) = 0 THEN <<0, 1>>
  ELSE RMin(<<95, 100>>, RMul(ratio, <<12, 10>>))

(* The part of matchFeatures after verifyGeometry has returned vr:
   the values of debugInfo, lastMatches and the returned list. *)
MatchQuality(inliers, ratio, colorScore) ==
  RNorm(RMin(<<1, 1>>,
     RAdd(RAdd(RMul(<<Len(inliers), 30>>, <<4, 10>>), RMul(ratio, <<2, 10>>)),
          RMul(colorScore, <<4, 10>>))))

ColorScore(inliers, fps, ratio, loaded, histogram) ==
  IF loaded /\ Len(inliers) >= COLOR_MIN_INLIERS
    THEN LET bbox == getBoundingBox([i \in 1..Len(inliers) |-> fps[inliers[i].queryIdx]])
         IN IF bbox.width > BBOX_MIN /\ bbox.height > BBOX_MIN
              THEN evaluateColorSimilarity(loaded, histogram, ratio)
              ELSE <<0, 1>>
    ELSE <<0, 1>>

EmptyDebugInfo ==
  [reset |-> FALSE, targetPoints |-> 0, framePoints |-> 0, descriptorMatches |-> 0,
   inlierRatio |-> <<0, 1>>, matchQuality |-> <<0, 1>>, fingerprintScore |-> <<0, 1>>,
   colorScore |-> <<0, 1>>]

(* "this.debugInfo = {...}" at the head of matchFeatures *)
ResetDebugInfo(tps, fps) ==
  [EmptyDebugInfo EXCEPT !.reset = TRUE, !.targetPoints = Len(tps),
                         !.framePoints = Len(fps)]

(* createColorHistogram over the RGBA pixels of the target image: 4 bins per
   channel, pixels with alpha < 128 skipped, each count divided by the number
   of counted pixels (0 / 0 when every pixel is transparent). *)
BinOf(p) == ((p.r * 4) \div 256) * 16 + ((p.g * 4) \div 256) * 4 + ((p.b * 4) \div 256) + 1
createColorHistogram(pixels) ==
  LET counted == {i \in 1..Len(pixels) : pixels[i].a >= 128}
      totalPixels == Cardinality(counted)
  IN [bin \in 1..64 |->
        <<Cardinality({i \in counted : BinOf(pixels[i]) = bin}), totalPixels>>]

----------------------------------------------------------------------------
(* Inputs: reference models and frames *)

Scale(p, k) == [x |-> k * p.x, y |-> k * p.y]
GridPoint(i) == [x |-> 10 * (1 + ((i - 1) % 4)), y |-> 10 * (1 + ((i - 1) \div 4))]
Desc(i) == <<5 * i, 0>>
TargetImagePixels ==
  <<[r |-> 255, g |-> 0, b |-> 0, a |-> 255], [r |-> 0, g |-> 0, b |-> 0, a |-> 0]>>

SeqsUpTo(S, n) == UNION {[1..k -> S] : k \in 0..n}

(* A reference model of np grid points and nf descriptors. *)
SceneTD(np, nf, url) ==
  [hasPoints |-> TRUE, points |-> [i \in 1..np |-> GridPoint(i)],
   width |-> 50, height |-> 50, features |-> [i \in 1..nf |-> Desc(i)],
   imageUrl |-> url, image |-> TargetImagePixels]

(* "new ImageTracker(undefined)" or tracking data without points *)
NullTD ==
  [hasPoints |-> FALSE, points |-> <<>>, width |-> 0, height |-> 0,
   features |-> <<>>, imageUrl |-> FALSE, image |-> <<>>]

NoImage == [width |-> 0, height |-> 0, lo |-> 0, hi |-> 0]

(* A frame of np points and nd descriptors: point i is the reference point i
   scaled by 2 for i <= nGood and by 5 after it; descriptor i is the reference
   descriptor i. *)
SceneFrame(nGood, np, nd) ==
  [points |-> [i \in 1..np |-> Scale(GridPoint(i), IF i <= nGood THEN 2 ELSE 5)],
   descriptors |-> [i \in 1..nd |-> Desc(i)]]

(* n distinct descriptors at one and the same frame point *)
CoincidentFrame(n) ==
  [points |-> [i \in 1..n |-> [x |-> 20, y |-> 20]],
   descriptors |-> [i \in 1..n |-> Desc(i)]]

(* n frame points that all carry the descriptor of reference point 1 *)
DuplicateFrame(n) ==
  [points |-> [i \in 1..n |-> Scale(GridPoint(i), 2)],
   descriptors |-> [i \in 1..n |-> Desc(1)]]

MainDescs == {<<0, 0>>, <<3, 4>>}
SmallDescs == {<<0, 0>>, <<3, 4>>, <<6, 0>>, <<10, 10>>, <<3>>}

SmallTDs ==
  {[hasPoints |-> TRUE, points |-> [i \in 1..np |-> GridPoint(i)], width |-> 50,
    height |-> 50, features |-> fs, imageUrl |-> FALSE, image |-> <<>>] :
     np \in 0..MaxSmall, fs \in SeqsUpTo(MainDescs, MaxSmall + 1)}

SmallFrames ==
  {[points |-> [i \in 1..np |-> Scale(GridPoint(i), 2)], descriptors |-> ds] :
     np \in 0..MaxSmall, ds \in SeqsUpTo(MainDescs, MaxSmall + 1)}

SceneSize == MaxGood + MaxBad

TrackingDatas ==
  SmallTDs \cup {NullTD, SceneTD(SceneSize, SceneSize, FALSE),
                 SceneTD(SceneSize, SceneSize, TRUE),
                 SceneTD(SceneSize - 1, SceneSize, FALSE)}

Frames ==
  SmallFrames
  \cup {SceneFrame(g, g + b, g + b) : g \in (MIN_MATCHES - 2)..MIN_MATCHES, b \in 0..1}
  \cup {SceneFrame(MIN_MATCHES, MIN_MATCHES - 1, MIN_MATCHES),
        CoincidentFrame(MIN_MATCHES), DuplicateFrame(MIN_MATCHES)}

(* Matches that pair frame point i with reference point i, i = 1..n. *)
IdMatches(n) == [i \in 1..n |-> [queryIdx |-> i, trainIdx |-> i, distanceSq |-> 0]]

(* Arguments of direct calls of verifyGeometry: n matches, of which the first
   g have frame points at scale 2 and the others at scale 5. *)
VerifyCall(g, n) == [ms |-> IdMatches(n), fps |-> SceneFrame(g, n, n).points]

VerifyCalls ==
  {VerifyCall(n, n) : n \in 0..(VERIFY_MIN_MATCHES + 1)}
  \cup {VerifyCall(VERIFY_MIN_MATCHES - 1, VERIFY_MIN_MATCHES),
        VerifyCall(MaxGood, MaxGood + MaxBad)}

----------------------------------------------------------------------------
(* ImageTracker: constructor and operations *)

(* constructor (tracker.ts 18-57).  Every reference model above has fewer than
   FINGERPRINT_POINTS points, so createSpatialFingerprint returns at its first
   line and targetFingerprint keeps its initial value. *)
Constructor(td) ==
  /\ trackingData = td
  /\ targetPoints = (IF td.hasPoints THEN td.points ELSE <<>>)
  /\ targetWidth = (IF td.hasPoints THEN td.width ELSE 0)
  /\ targetHeight = (IF td.hasPoints THEN td.height ELSE 0)
  /\ targetDescriptor = (IF td.hasPoints /\ Len(td.features) > 0 THEN td.features ELSE <<>>)
  /\ targetFingerprint = <<>>
  /\ targetImageLoaded = FALSE
  /\ colorHistogram = <<>>
  /\ lastConsistencyRatio = <<0, 1>>
  /\ lastMatches = <<>>
  /\ debugInfo = EmptyDebugInfo

(* "{ inliers: [], consistencyRatio: 0 }" *)
NoResult == [consistencyRatio |-> <<0, 1>>, inliers |-> <<>>]

NoCall ==
  /\ pc = "idle"
  /\ caller = "none"
  /\ framePoints = <<>>
  /\ frameDescriptors = <<>>
  /\ matches = <<>>
  /\ iter = 0
  /\ bestInliers = <<>>
  /\ bestRatio = <<0, 1>>
  /\ iterResults = {}
  /\ verifyResult = NoResult
  /\ returned = [path |-> "none", value |-> <<>>]

NoFrame == [points |-> <<>>, descriptors |-> <<>>, width |-> 0, height |-> 0]

NoComparison ==
  [frameLength |-> 0, frameProcedure |-> "none", targetLength |-> 0,
   targetProcedure |-> "none", distanceSq |-> 0]

(* The Camera component as mounted: the initial values of useState and
   useRef, and the first run of the tracking effect; no frame has been
   fetched and no pair of descriptors compared. *)
NoTime == -1

(* Date.now() when the page is loaded: far more than PROCESS_INTERVAL
   milliseconds after the epoch *)
StartTime == 1000

(* "new FrameProcessor()" (frameProcessor.ts 18-27), nothing called yet *)
FrameProcessorNew ==
  /\ now = StartTime
  /\ lastProcessTime = 0
  /\ entryPoint = "none"
  /\ detected = FALSE
  /\ lastDetectTime = NoTime
  /\ detectGap = NoTime

Variants == {"stability", "guard", "latch"}

(* The tracking effect has run once.  Camera.tsx 139-150 and 393 call
   processFrame() from the effect itself, which runs up to its await; the
   other two components (types/tracking.ts 159-178, Camera.tsx 692-713) first
   ask for the camera and call processFrame() from onloadedmetadata. *)
EffectStarted(v) ==
  /\ variant = v
  /\ loopPc = (IF v = "stability" THEN "suspended" ELSE "idle")
  /\ rafPending = FALSE
  /\ streamPending = (v # "stability")
  /\ tornDown = FALSE
  /\ framesProcessed = 0
  /\ requestedAfterTeardown = FALSE
  /\ processedAfterTeardown = FALSE

(* The fields of "new ImageTracker(td)" (tracker.ts 4-57) and of
   "new FrameProcessor()" (frameProcessor.ts 19-27) *)
NewInstances(td) ==
  [trackingData |-> td,
   targetPoints |-> IF td.hasPoints THEN td.points ELSE <<>>,
   targetWidth |-> IF td.hasPoints THEN td.width ELSE 0,
   targetHeight |-> IF td.hasPoints THEN td.height ELSE 0,
   targetDescriptor |-> IF td.hasPoints /\ Len(td.features) > 0 THEN td.features ELSE <<>>,
   targetFingerprint |-> <<>>,
   targetImageLoaded |-> FALSE,
   colorHistogram |-> <<>>,
   lastConsistencyRatio |-> <<0, 1>>,
   lastMatches |-> <<>>,
   debugInfo |-> EmptyDebugInfo,
   lastProcessTime |-> 0]

NoArguments == [width |-> 0, height |-> 0, lo |-> 0, textured |-> {}]
NoPrevious ==
  [called |-> FALSE, image |-> NoArguments, detailed |-> FALSE, maxPoints |-> 0,
   result |-> <<>>, lastProcessTime |-> 0]

NoDetection ==
  /\ dPc = "idle"
  /\ dImage = NoArguments
  /\ dDetailed = FALSE
  /\ dMaxPoints = 0
  /\ dCell = 0
  /\ dPoints = <<>>
  /\ dCellCount = 0
  /\ dCapped = FALSE
  /\ dResult = <<>>
  /\ dProcessTime = 0
  /\ previous = NoPrevious

NoDraw ==
  /\ drawPc = "idle"
  /\ drawCount = 0
  /\ drawMax = 0
  /\ indices = <<>>

CameraMountAs(v) ==
  /\ EffectStarted(v)
  /\ isTracking = FALSE
  /\ trackingConfirmed = FALSE
  /\ testMode = TRUE
  /\ trackingStartFrameCount = 0
  /\ lastFrameWasTracking = FALSE
  /\ trackingStabilityCounter = 0
  /\ lastFramesRef = <<>>
  /\ closure = [isTracking |-> FALSE, trackingConfirmed |-> FALSE, testMode |-> TRUE,
                trackingStartFrameCount |-> 0, lastFrameWasTracking |-> FALSE]
  /\ frameData = NoFrame
  /\ frameMatches = <<>>
  /\ lastDecision = "none"
  /\ goodRun = 0
  /\ lastUpdate = "none"
  /\ compared = NoComparison
  /\ frameCountRef = 0
  /\ lastAverage = 0
  /\ lastChanged = FALSE
  /\ framesSinceChange = 0
  /\ changeAfter = 0
  /\ targetRun = 0
  /\ changeRun = 0
  /\ FrameProcessorNew
  /\ thrownAt = "none"
  /\ preTracking = FALSE
  /\ preCounter = 0
  /\ nextFrameRequested = FALSE
  /\ uploaded = NoImage
  /\ appTrackingData = NullTD
  /\ lastBuild = [op |-> "none", threw |-> FALSE]
  /\ NoDraw
  /\ notified = <<>>
  /\ session = "A"
  /\ other = NewInstances(NullTD)
  /\ NoDetection

CameraMount == CameraMountAs("stability")

Init ==
  /\ \E td \in TrackingDatas :
       /\ Len(td.points) < FINGERPRINT_POINTS
       /\ Constructor(td)
  /\ NoCall
  /\ CameraMount

(* targetImage.onload (tracker.ts 63-76): runs between calls of matchFeatures *)
TargetImageOnload ==
  /\ pc = "idle"
  /\ trackingData.hasPoints /\ trackingData.imageUrl
  /\ ~targetImageLoaded
  /\ targetImageLoaded' = TRUE
  /\ colorHistogram' = createColorHistogram(trackingData.image)
  /\ UNCHANGED <<trackingData, targetPoints, targetWidth, targetHeight,
                 targetDescriptor, targetFingerprint, lastConsistencyRatio,
                 lastMatches, debugInfo, callVars, cameraVars, compared, loopVars>>

(* matchFeatures from "const { consistencyRatio, inliers } = ..." to its end *)
FinishMatchFeatures(vr, dbg, fps) ==
  LET colorScore == ColorScore(vr.inliers, fps, vr.consistencyRatio,
                               targetImageLoaded, colorHistogram)
  IN /\ debugInfo' = [dbg EXCEPT !.inlierRatio = vr.consistencyRatio,
                                 !.colorScore = colorScore,
                                 !.matchQuality = MatchQuality(vr.inliers,
                                                    vr.consistencyRatio, colorScore)]
     /\ lastMatches' = vr.inliers
     /\ returned' = [path |-> "verified", value |-> vr.inliers]

(* verifyGeometry up to its loop: the early return, or the loop's initial state *)
VerifyShortCircuitBuggy(ms) == Len(ms) < SAMPLE_SIZE

VerifyShortCircuit(ms) == Len(ms) < VERIFY_MIN_MATCHES

EnterLoop(ms, who) ==
  /\ pc' = "verify"
  /\ caller' = who
  /\ matches' = ms
  /\ iter' = 0
  /\ bestInliers' = <<>>
  /\ bestRatio' = <<0, 1>>
  /\ iterResults' = {}
  /\ verifyResult' = NoResult

NoLoop(ms, who, vr) ==
  /\ pc' = "idle"
  /\ caller' = who
  /\ matches' = ms
  /\ iter' = 0
  /\ bestInliers' = <<>>
  /\ bestRatio' = <<0, 1>>
  /\ iterResults' = {}
  /\ verifyResult' = vr

TooFewMatchesBuggy(ms) == Len(ms) < SAMPLE_SIZE

(* "if (matches.length < 8)" in matchFeatures *)
TooFewMatches(ms) == Len(ms) < MIN_MATCHES

(* matchFeatures (tracker.ts 193-264), up to the first random draw *)
MatchFeaturesOf(f) ==
  LET dbg == ResetDebugInfo(targetPoints, f.points)
  IN /\ framePoints' = f.points
     /\ frameDescriptors' = f.descriptors
     /\ IF Len(targetPoints) = 0
          THEN /\ debugInfo' = dbg
               /\ returned' = [path |-> "noTargetPoints", value |-> <<>>]
               /\ NoLoop(<<>>, "matchFeatures", NoResult)
               /\ UNCHANGED lastMatches
        ELSE IF ~(Len(f.descriptors) > 0 /\ Len(targetDescriptor) > 0)
          THEN /\ debugInfo' = dbg
               /\ returned' = [path |-> "missingDescriptors", value |-> <<>>]
               /\ NoLoop(<<>>, "matchFeatures", NoResult)
               /\ UNCHANGED lastMatches
        ELSE LET ms == findBestMatchesWithRatioTest(f.descriptors,
                           targetDescriptor, ratioThreshold)
                 dbg2 == [dbg EXCEPT !.descriptorMatches = Len(ms)]
             IN IF TooFewMatches(ms)
                  THEN /\ debugInfo' = dbg2
                       /\ lastMatches' = <<>>
                       /\ returned' = [path |-> "tooFewMatches", value |-> <<>>]
                       /\ NoLoop(ms, "matchFeatures", NoResult)
                ELSE IF VerifyShortCircuit(ms)
                  THEN /\ NoLoop(ms, "matchFeatures", NoResult)
                       /\ FinishMatchFeatures(NoResult, dbg2, f.points)
                ELSE /\ EnterLoop(ms, "matchFeatures")
                     /\ debugInfo' = dbg2
                     /\ returned' = [path |-> "running", value |-> <<>>]
                     /\ UNCHANGED lastMatches
  /\ UNCHANGED <<trackingData, targetPoints, targetWidth, targetHeight,
                 targetDescriptor, targetFingerprint, targetImageLoaded,
                 colorHistogram, lastConsistencyRatio, cameraVars, compared, loopVars>>

MatchFeatures ==
  /\ pc = "idle"
  /\ \E f \in Frames : MatchFeaturesOf(f)

IsBetterBuggy(ratio, best) == TRUE

(* "if (ratio > bestRatio)" *)
IsBetter(ratio, best) == RLess(best, ratio)

(* The results checkInliers can return in one iteration of verifyGeometry's
   loop: one for every sample getRandomIndices can draw. *)
IterationOutcomes(ms, fps, tps) ==
  {checkInliers(SamplesAt(S, ms), ms, fps, tps) :
     S \in getRandomIndices(SAMPLE_SIZE, Len(ms))}

(* IterationOutcomes, tabulated once for the inputs the model draws. *)
VerifyInputs ==
  {[ms |-> findBestMatchesWithRatioTest(f.descriptors, td.features, ratioThreshold),
    fps |-> f.points, tps |-> td.points] :
     td \in {t \in TrackingDatas : t.hasPoints}, f \in Frames}
  \cup {[ms |-> c.ms, fps |-> c.fps, tps |-> SceneTD(SceneSize, SceneSize, FALSE).points] :
          c \in VerifyCalls}

OutcomeTable ==
  {[in |-> in, out |-> IterationOutcomes(in.ms, in.fps, in.tps)] :
     in \in {i \in VerifyInputs : Len(i.ms) >= SAMPLE_SIZE}}

Outcomes(ms, fps, tps) ==
  LET key == [ms |-> ms, fps |-> fps, tps |-> tps]
  IN IF \E row \in OutcomeTable : row.in = key
       THEN (CHOOSE row \in OutcomeTable : row.in = key).out
       ELSE IterationOutcomes(ms, fps, tps)

(* One iteration of verifyGeometry's loop (tracker.ts 316-328) with the sample
   the random draws produce; the last iteration returns, and with
   matchFeatures as the caller runs matchFeatures to its end. *)
VerifyIteration ==
  /\ pc = "verify"
  /\ \E r \in Outcomes(matches, framePoints, targetPoints) :
       LET better == IsBetter(r.ratio, bestRatio)
           bi == IF better THEN r.inliers ELSE bestInliers
           br == IF better THEN r.ratio ELSE bestRatio
           vr == [consistencyRatio |-> br, inliers |-> bi]
       IN /\ iter' = iter + 1
          /\ IF r.threw
               THEN /\ pc' = "idle"
                    /\ returned' = [path |-> "exception", value |-> <<>>]
                    /\ UNCHANGED <<bestInliers, bestRatio, iterResults, verifyResult,
                                   debugInfo, lastMatches>>
             ELSE /\ iterResults' = iterResults \cup {[inliers |-> r.inliers, ratio |-> r.ratio]}
                  /\ bestInliers' = bi
                  /\ bestRatio' = br
                  /\ IF iter + 1 < MAX_ITERATIONS
                       THEN /\ pc' = "verify"
                            /\ UNCHANGED <<verifyResult, debugInfo, lastMatches, returned>>
                     ELSE /\ pc' = "idle"
                          /\ verifyResult' = vr
                          /\ IF caller = "matchFeatures"
                               THEN FinishMatchFeatures(vr, debugInfo, framePoints)
                               ELSE UNCHANGED <<debugInfo, lastMatches, returned>>
  /\ UNCHANGED <<trackingData, targetPoints, targetWidth, targetHeight,
                 targetDescriptor, targetFingerprint, targetImageLoaded,
                 colorHistogram, lastConsistencyRatio,
                 caller, framePoints, frameDescriptors, matches, cameraVars, compared, loopVars>>

Next == MatchFeatures \/ VerifyIteration \/ TargetImageOnload

Spec == Init /\ [][Next]_vars

----------------------------------------------------------------------------
(* Claims on matchFeatures *)

(* C2 as stated: every match created by matchFeatures has a queryIdx that is
   an index of the frame points and a trainIdx that is an index of the
   reference points. *)
C2_MatchIndicesValid ==
  caller = "matchFeatures" =>
    \A k \in 1..Len(matches) :
      /\ ValidIdx(matches[k].queryIdx, framePoints)
      /\ ValidIdx(matches[k].trainIdx, targetPoints)

(* C4: when descriptor matching yields fewer than 8 matches, matchFeatures
   has returned the empty list through one of its early returns, without an
   exception and without a call of verifyGeometry. *)
C4_TooFewMatchesReturnsEmpty ==
  (caller = "matchFeatures" /\ Len(matches) < MIN_MATCHES) =>
    /\ pc = "idle"
    /\ returned.value = <<>>
    /\ returned.path \in {"noTargetPoints", "missingDescriptors", "tooFewMatches"}
    /\ iter = 0 /\ iterResults = {}
    /\ debugInfo.inlierRatio = <<0, 1>>

C4_Witness ==
  /\ caller = "matchFeatures"
  /\ Len(matches) = MIN_MATCHES - 1
  /\ returned = [path |-> "tooFewMatches", value |-> <<>>]
  /\ lastMatches = <<>>

----------------------------------------------------------------------------
(* verifyGeometry called directly *)

InitVerify ==
  /\ Constructor(SceneTD(SceneSize, SceneSize, FALSE))
  /\ NoCall
  /\ CameraMount

VerifyGeometry ==
  /\ pc = "idle"
  /\ \E c \in VerifyCalls :
       /\ framePoints' = c.fps
       /\ IF VerifyShortCircuit(c.ms)
            THEN NoLoop(c.ms, "direct", NoResult)
            ELSE EnterLoop(c.ms, "direct")
  /\ UNCHANGED <<trackerVars, frameDescriptors, returned, cameraVars, compared, loopVars>>

NextVerify == VerifyGeometry \/ VerifyIteration

SpecVerify == InitVerify /\ [][NextVerify]_vars

(* C5: verifyGeometry called with fewer than 8 matches has returned
   { inliers: [], consistencyRatio: 0 } and has not drawn a sample. *)
C5_ShortCircuit ==
  (caller = "direct" /\ Len(matches) < VERIFY_MIN_MATCHES) =>
    /\ pc = "idle"
    /\ verifyResult = NoResult
    /\ iter = 0 /\ iterResults = {}

C5_Witness ==
  /\ caller = "direct"
  /\ Len(matches) = VERIFY_MIN_MATCHES - 1
  /\ pc = "idle"
  /\ verifyResult = NoResult

VerifyReturned == pc = "idle" /\ iter = MAX_ITERATIONS /\ returned.path # "exception"

(* C6 as stated: for 10 matches at scale 2 and 2 matches at scale 5,
   verifyGeometry returns exactly the 10 matches at scale 2, whatever samples
   its five iterations draw. *)
C6_ReturnsConsistentMatches ==
  (VerifyReturned /\ caller = "direct"
     /\ matches = IdMatches(MaxGood + MaxBad)
     /\ framePoints = SceneFrame(MaxGood, MaxGood + MaxBad, MaxGood + MaxBad).points) =>
    verifyResult.inliers = SubSeq(matches, 1, MaxGood)

IsSubList(sub, full) ==
  /\ \A i \in 1..Len(sub) : \E k \in 1..Len(full) : full[k] = sub[i]
  /\ \A i, j \in 1..Len(sub) :
       i < j => \E k, l \in 1..Len(full) : k < l /\ full[k] = sub[i] /\ full[l] = sub[j]

(* C7: what verifyGeometry returns is the result of one of its iterations, no
   iteration has a larger ratio, the inliers are a sub-list of the matches,
   and the ratio is the number of inliers over the number of matches. *)
C7_BestIteration ==
  VerifyReturned =>
    /\ [inliers |-> verifyResult.inliers, ratio |-> verifyResult.consistencyRatio]
         \in iterResults
    /\ \A r \in iterResults : ~RLess(verifyResult.consistencyRatio, r.ratio)
    /\ IsSubList(verifyResult.inliers, matches)
    /\ REq(verifyResult.consistencyRatio, <<Len(verifyResult.inliers), Len(matches)>>)
    /\ ~RLess(verifyResult.consistencyRatio, <<0, 1>>)
    /\ ~RLess(<<1, 1>>, verifyResult.consistencyRatio)

C7_Witness ==
  /\ VerifyReturned
  /\ caller = "direct"
  /\ Len(matches) = MaxGood + MaxBad
  /\ Len(verifyResult.inliers) = MaxGood
  /\ Cardinality(iterResults) >= 3

----------------------------------------------------------------------------
(* findBestMatchesWithRatioTest as a function of its two descriptor lists *)

RatioTargets == SeqsUpTo(SmallDescs, MaxDescs)

(* One more frame descriptor than ".slice(0, 100)" keeps, all equal. *)
ManyFrame == [i \in 1..(TOP_MATCHES + 1) |-> <<0, 0>>]

(* As many again, the farthest from the origin first. *)
FarFirstFrame == [i \in 1..(TOP_MATCHES + 1) |-> <<TOP_MATCHES + 2 - i, 0>>]

RatioFrames == SeqsUpTo(SmallDescs, MaxDescs) \cup {ManyFrame, FarFirstFrame}

InitRatio ==
  /\ \E fs \in RatioTargets :
       Constructor([hasPoints |-> TRUE, points |-> <<>>, width |-> 0, height |-> 0,
                    features |-> fs, imageUrl |-> FALSE, image |-> <<>>])
  /\ pc = "idle"
  /\ caller = "none"
  /\ framePoints = <<>>
  /\ frameDescriptors \in RatioFrames
  /\ matches = <<>>
  /\ iter = 0
  /\ bestInliers = <<>>
  /\ bestRatio = <<0, 1>>
  /\ iterResults = {}
  /\ verifyResult = NoResult
  /\ returned = [path |-> "none", value |-> <<>>]
  /\ CameraMount

FindBestMatches ==
  /\ pc = "idle"
  /\ caller = "none"
  /\ caller' = "findBestMatchesWithRatioTest"
  /\ matches' = findBestMatchesWithRatioTest(frameDescriptors, targetDescriptor,
                                              ratioThreshold)
  /\ UNCHANGED <<trackerVars, pc, framePoints, frameDescriptors, iter, bestInliers,
                 bestRatio, iterResults, verifyResult, returned, cameraVars, compared, loopVars>>

NextRatio == FindBestMatches

SpecRatio == InitRatio /\ [][NextRatio]_vars

(* The ratio test stated on the distances themselves: reference t is nearer
   to frame descriptor q than ratioThreshold times every other reference. *)
DistSq(q, t) == computeDistanceSq(frameDescriptors[q], targetDescriptor[t])
Nearest(q, t) ==
  \A u \in (1..Len(targetDescriptor)) \ {t} :
    ratioThreshold[2] * ratioThreshold[2] * DistSq(q, t)
      < ratioThreshold[1] * ratioThreshold[1] * DistSq(q, u)
Passes(q) == \E t \in 1..Len(targetDescriptor) : Nearest(q, t)
Emitted(q) == \E k \in 1..Len(matches) : matches[k].queryIdx = q
Applied == caller = "findBestMatchesWithRatioTest"
TrainIdxIsNearest ==
  \A k \in 1..Len(matches) :
    /\ matches[k].queryIdx \in 1..Len(frameDescriptors)
    /\ matches[k].trainIdx \in 1..Len(targetDescriptor)
    /\ Nearest(matches[k].queryIdx, matches[k].trainIdx)
    /\ matches[k].distanceSq = DistSq(matches[k].queryIdx, matches[k].trainIdx)

(* C1 as stated: a frame descriptor gets a match if and only if its smallest
   distance is below 0.7 times its second-smallest distance (no second
   reference descriptor: no bound), and the match names the nearest reference
   descriptor. *)
C1_EmittedIffRatioTest ==
  Applied =>
    /\ \A q \in 1..Len(frameDescriptors) : Emitted(q) <=> Passes(q)
    /\ TrainIdxIsNearest

(* C1, amended: a match is emitted only for a frame descriptor that passes the
   ratio test, at most once, and names the nearest reference descriptor; a
   descriptor that passes gets its match unless TOP_MATCHES matches of no
   larger distance are returned in its place. *)
C1_RatioTestTop100 ==
  Applied =>
    /\ \A q \in 1..Len(frameDescriptors) :
         /\ Emitted(q) => Passes(q)
         /\ (Passes(q) /\ ~Emitted(q)) =>
              /\ Len(matches) = TOP_MATCHES
              /\ \A k \in 1..Len(matches), t \in 1..Len(targetDescriptor) :
                   Nearest(q, t) => matches[k].distanceSq <= DistSq(q, t)
    /\ TrainIdxIsNearest
    /\ \A k, l \in 1..Len(matches) :
         k # l => matches[k].queryIdx # matches[l].queryIdx

(* An exact duplicate with a far second candidate is accepted, and a frame
   descriptor at equal distance from both references is rejected. *)
C1_Witness ==
  /\ Applied
  /\ targetDescriptor = << <<0, 0>>, <<6, 0>> >>
  /\ frameDescriptors = << <<0, 0>>, <<3, 4>> >>
  /\ matches = <<[queryIdx |-> 1, trainIdx |-> 1, distanceSq |-> 0]>>

----------------------------------------------------------------------------
(* Camera component: calculateAdvancedMatchScore (Camera.tsx 152-250) *)

Abs(n) == IF n < 0 THEN -n ELSE n

RECURSIVE SumOver(_, _)
SumOver(S, f) ==
  IF S = {} THEN 0
  ELSE LET c == CHOOSE x \in S : TRUE IN f[c] + SumOver(S \ {c}, f)

Cells == 0..(GRID_SIZE * GRID_SIZE - 1)

(* The cell of a reference point, GRID_SIZE * GRID_SIZE if it has none. *)
TargetCell(pt, td) ==
  IF td.width <= 0 \/ td.height <= 0 THEN GRID_SIZE * GRID_SIZE
  ELSE LET x == (pt.x * GRID_SIZE) \div td.width
           y == (pt.y * GRID_SIZE) \div td.height
       IN IF x >= 0 /\ x < GRID_SIZE /\ y >= 0 /\ y < GRID_SIZE
            THEN y * GRID_SIZE + x ELSE GRID_SIZE * GRID_SIZE

(* "Math.abs(point.x - centerX) < regionWidth / 2", the region being the
   central 70% of the frame *)
InRegion(point, fd) ==
  /\ Abs(20 * point.x - 10 * fd.width) < 7 * fd.width
  /\ Abs(20 * point.y - 10 * fd.height) < 7 * fd.height

(* The cell of a frame point of the region:
   Math.floor((point.x - 0.15 * frameWidth) / (0.7 * frameWidth) * GRID_SIZE) *)
FrameCell(point, fd) ==
  LET gridX == (GRID_SIZE * (20 * point.x - 3 * fd.width)) \div (14 * fd.width)
      gridY == (GRID_SIZE * (20 * point.y - 3 * fd.height)) \div (14 * fd.height)
  IN IF gridX >= 0 /\ gridX < GRID_SIZE /\ gridY >= 0 /\ gridY < GRID_SIZE
       THEN gridY * GRID_SIZE + gridX ELSE GRID_SIZE * GRID_SIZE

(* "matchScore >= PATTERN_MATCH_THRESHOLD", the threshold being 0.7.  With T reference points, P points
   in the region, t and f the two grids and n the number of cells with t > 0:
     rmse^2 = S / (n T^2 P^2), S the sum of (t P - f T)^2 over those cells,
     countRatio = min(P, T) / max(P, T),
     finalScore = 0.7 * max(0, 1 - rmse) + 0.3 * countRatio,
   so that finalScore >= 0.7 iff 7 * rmse <= 3 * countRatio, that is
   49 * S <= 9 * n * min(P, T)^4.  Without reference points the target grid is
   0 / 0 in every cell, no cell is compared, rmse is 1 and countRatio is 0. *)
PatternMatches(points, td, fd) ==
  LET T == Len(td.points)
      inside == {i \in 1..Len(points) :
                   /\ InRegion(points[i], fd)
                   /\ FrameCell(points[i], fd) \in Cells}
      P == Cardinality(inside)
      t == [c \in Cells |-> Cardinality({i \in 1..T : TargetCell(td.points[i], td) = c})]
      f == [c \in Cells |-> Cardinality({i \in inside : FrameCell(points[i], fd) = c})]
      used == {c \in Cells : t[c] > 0}
      err == [c \in used |-> (t[c] * P - f[c] * T) * (t[c] * P - f[c] * T)]
      m == Min(P, T)
  IN /\ Len(points) > 0
     /\ fd.width > 0 /\ fd.height > 0
     /\ P >= MIN_REGION_POINTS
     /\ T > 0
     /\ used # {}
     /\ 49 * SumOver(used, err) <= 9 * Cardinality(used) * m * m * m * m

(* The forced matches of the test mode: "trainIdx: i % trackingData.points.length",
   which is NaN, no index, without reference points. *)
ForcedMatches(points, td) ==
  [k \in 1..Min(FORCED_MATCHES, Len(points)) |->
     [queryIdx |-> k,
      trainIdx |-> IF Len(td.points) = 0 THEN 0 ELSE ((k - 1) % Len(td.points)) + 1,
      distance |-> <<1, 10>>]]

(* getAverageMatches: the window after the push, the average is the sum over
   the length. *)
PushWindow(window, currentMatches) ==
  LET pushed == Append(window, currentMatches)
  IN IF Len(pushed) > MAX_FRAMES THEN Tail(pushed) ELSE pushed

WindowSum(window) == SumOver(1..Len(window), window)

----------------------------------------------------------------------------
(* Camera component: reference models and frames of a session *)

(* Eight reference points, one in each cell of the first row of the grid. *)
CameraTD ==
  [hasPoints |-> TRUE, points |-> [i \in 1..GRID_SIZE |-> [x |-> 10 * i - 5, y |-> 5]],
   width |-> 10 * GRID_SIZE, height |-> 10 * GRID_SIZE, features |-> <<>>,
   imageUrl |-> FALSE, image |-> <<>>]

EmptyTD == [CameraTD EXCEPT !.points = <<>>]

(* What getFrameData returns for a 800 x 800 video: n points spread over the
   cells of the first row of the region, n points in one cell of its last
   row, or no point at all (a uniform frame). *)
SpreadFrame(n) ==
  [points |-> [i \in 1..n |-> [x |-> 155 + 70 * ((i - 1) % GRID_SIZE),
                               y |-> 150 + ((i - 1) \div GRID_SIZE)]],
   width |-> 800, height |-> 800]

ClutterFrame(n) ==
  [points |-> [i \in 1..n |-> [x |-> 155, y |-> 615 + i]],
   width |-> 800, height |-> 800]

BlankFrame == [points |-> <<>>, width |-> 800, height |-> 800]

(* A reference of 16 points with their descriptors, and the frame in which
   getFrameData finds exactly these points and descriptors. *)
ReferenceTD == SceneTD(16, 16, FALSE)

ReferenceFrame ==
  [points |-> [i \in 1..16 |-> GridPoint(i)],
   descriptors |-> [i \in 1..16 |-> Desc(i)], width |-> 800, height |-> 800]

(* A frame shows the target of td when matchFeatures, given its points and
   descriptors, would find START_TRACKING_THRESHOLD verified matches or more
   and a match quality of MIN_MATCH_QUALITY or more, whatever samples
   verifyGeometry draws. *)
ShowsTarget(fd, td) ==
  LET tps == [i \in 1..Len(td.points) |-> td.points[i]]
      ms == findBestMatchesWithRatioTest(fd.descriptors, td.features, ratioThreshold)
  IN /\ Len(ms) >= START_TRACKING_THRESHOLD
     /\ ~TooFewMatches(ms)
     /\ \A S \in getRandomIndices(SAMPLE_SIZE, Len(ms)) :
          LET r == checkInliers(SamplesAt(S, ms), ms, fd.points, tps)
          IN /\ ~r.threw
             /\ Len(r.inliers) >= START_TRACKING_THRESHOLD
             /\ ~RLess(MatchQuality(r.inliers, r.ratio, <<0, 1>>), MIN_MATCH_QUALITY)

TargetFrames == {fd \in {ReferenceFrame} : ShowsTarget(fd, ReferenceTD)}

CameraFrames ==
  {BlankFrame, SpreadFrame(GRID_SIZE), SpreadFrame(MIN_REGION_POINTS + 6),
   ClutterFrame(MIN_REGION_POINTS), ReferenceFrame}

CameraTDs == {CameraTD, EmptyTD, ReferenceTD}

(* PatternMatches, tabulated once for the sessions and frames above. *)
PatternTable ==
  {[td |-> td, fd |-> fd, matches |-> PatternMatches(fd.points, td, fd)] :
     td \in CameraTDs, fd \in CameraFrames}

PatternOf(fd, td) ==
  IF \E row \in PatternTable : row.td = td /\ row.fd = fd
    THEN (CHOOSE row \in PatternTable : row.td = td /\ row.fd = fd).matches
    ELSE PatternMatches(fd.points, td, fd)

----------------------------------------------------------------------------
(* Camera component: the frame loop (Camera.tsx 139-410) *)

Snapshot ==
  [isTracking |-> isTracking, trackingConfirmed |-> trackingConfirmed,
   testMode |-> testMode, trackingStartFrameCount |-> trackingStartFrameCount,
   lastFrameWasTracking |-> lastFrameWasTracking]

InitCamera ==
  /\ \E td \in CameraTDs : Constructor(td)
  /\ NoCall
  /\ CameraMount

StabilityReachedBuggy(counter) == counter >= 1

(* "trackingStabilityCounter.current >= TRACKING_STABILITY_THRESHOLD" *)
StabilityReached(counter) == counter >= TRACKING_STABILITY_THRESHOLD

(* The decision of the regular mode (Camera.tsx 295-317), which reads the
   state values of the closure c: the decision and the new value of
   trackingStartFrameCount. *)
RegularDecision(c, matchQuality, window) ==
  LET enough(n) == WindowSum(window) >= n * Len(window)
      keep == ~RLess(matchQuality, MAINTAIN_MATCH_QUALITY)
                /\ enough(STOP_TRACKING_THRESHOLD)
      start == ~RLess(matchQuality, MIN_MATCH_QUALITY)
                 /\ enough(START_TRACKING_THRESHOLD)
      newCount == c.trackingStartFrameCount + 1
  IN IF c.isTracking
       THEN [should |-> keep, startCount |-> trackingStartFrameCount]
     ELSE IF start /\ ~c.lastFrameWasTracking
       THEN [should |-> newCount >= START_DELAY_FRAMES, startCount |-> newCount]
     ELSE IF ~start
       THEN [should |-> FALSE, startCount |-> 0]
     ELSE [should |-> TRUE, startCount |-> trackingStartFrameCount]

(* One call of processFrame (Camera.tsx 252-390), with the state updates it
   requests applied.  The function reads isTracking, trackingConfirmed,
   testMode, trackingStartFrameCount and lastFrameWasTracking as they were
   when the effect that created it ran; the refs are read and written in
   place.  The tracker of this component is never asked to match, so its
   debugInfo is the one the constructor left. *)
FrameUpdates(fd) ==
    LET c == closure
        pattern == PatternOf(fd, trackingData)
        window == IF c.testMode THEN lastFramesRef ELSE PushWindow(lastFramesRef, 0)
        regular == RegularDecision(c, debugInfo.matchQuality, window)
        should == IF c.testMode THEN pattern ELSE regular.should
        ms == IF c.testMode /\ pattern THEN ForcedMatches(fd.points, trackingData)
              ELSE <<>>
        counter1 == IF should THEN trackingStabilityCounter + 1 ELSE 0
        confirmed1 ==
          IF should
            THEN IF StabilityReached(counter1) /\ ~c.trackingConfirmed
                   THEN TRUE ELSE trackingConfirmed
            ELSE IF c.trackingConfirmed THEN FALSE ELSE trackingConfirmed
        change == should # c.isTracking
        shown == /\ ~c.testMode /\ ~testMode
                 /\ trackingData = ReferenceTD /\ fd \in TargetFrames
        changed == change /\ should # isTracking
    IN /\ frameData' = fd
       /\ targetRun' = (IF shown THEN targetRun + 1 ELSE 0)
       /\ targetRun' <= MaxRun
       /\ IF Len(fd.points) = 0
            THEN /\ lastDecision' = "blank"
                 /\ frameMatches' = <<>>
                 /\ UNCHANGED <<isTracking, trackingConfirmed, trackingStartFrameCount,
                                lastFrameWasTracking, trackingStabilityCounter,
                                lastFramesRef, goodRun, lastUpdate, changeRun>>
            ELSE /\ counter1 <= MaxCounter
                 /\ changeRun' = (IF changed THEN changeRun + 1 ELSE 0)
                 /\ changeRun' <= MaxRun
                 /\ lastDecision' = (IF should THEN "good" ELSE "fail")
                 /\ goodRun' = (IF should THEN goodRun + 1 ELSE 0)
                 /\ frameMatches' = ms
                 /\ lastFramesRef' = window
                 /\ trackingStartFrameCount' =
                      (IF c.testMode THEN trackingStartFrameCount ELSE regular.startCount)
                 /\ lastFrameWasTracking' = should
                 /\ trackingStabilityCounter' = (IF change /\ ~should THEN 0 ELSE counter1)
                 /\ trackingConfirmed' = (IF change /\ ~should THEN FALSE ELSE confirmed1)
                 /\ isTracking' = (IF change THEN should ELSE isTracking)
                 /\ lastUpdate' = (IF change THEN should ELSE lastUpdate)
       /\ UNCHANGED <<trackerVars, callVars, compared, guardVars, testMode, closure>>

ProcessFrame ==
  \E fd \in CameraFrames : FrameUpdates(fd) /\ UNCHANGED auxVars

(* The tracking effect runs again after a render in which one of its
   dependencies isTracking, trackingStartFrameCount, lastFrameWasTracking or
   testMode has changed: the pending frame is cancelled and a new processFrame
   is created over the current state.  trackingConfirmed is not a dependency. *)
EffectRerun ==
  /\ \/ closure.isTracking # isTracking
     \/ closure.trackingStartFrameCount # trackingStartFrameCount
     \/ closure.lastFrameWasTracking # lastFrameWasTracking
     \/ closure.testMode # testMode
  /\ closure' = Snapshot
  /\ UNCHANGED <<trackerVars, callVars, compared, loopVars, isTracking, trackingConfirmed, testMode,
                 trackingStartFrameCount, lastFrameWasTracking,
                 trackingStabilityCounter, lastFramesRef, frameData, frameMatches,
                 lastDecision, goodRun, lastUpdate>>

(* handleKeyDown for the key "t": setTestMode(prev => !prev) *)
HandleKeyDown ==
  /\ testMode' = ~testMode
  /\ targetRun' = 0
  /\ UNCHANGED <<trackerVars, callVars, compared, guardVars, changeRun, auxVars,
                 isTracking, trackingConfirmed,
                 trackingStartFrameCount, lastFrameWasTracking,
                 trackingStabilityCounter, lastFramesRef, closure, frameData,
                 frameMatches, lastDecision, goodRun, lastUpdate>>

NextCamera == ProcessFrame \/ EffectRerun \/ HandleKeyDown

SpecCamera == InitCamera /\ [][NextCamera]_vars

(* C8: trackingConfirmed turns true only on a frame that takes the stability
   counter to TRACKING_STABILITY_THRESHOLD or beyond, the counter being the
   number of frames with shouldBeTracking = true since the last frame that
   failed the thresholds; the counter moves by one step up on such a frame
   and otherwise only back to 0 on a failing frame. *)
C8_ConfirmedAfterThreshold ==
  [][/\ (~trackingConfirmed /\ trackingConfirmed') =>
          /\ lastDecision' = "good"
          /\ trackingStabilityCounter' >= TRACKING_STABILITY_THRESHOLD
          /\ goodRun' >= TRACKING_STABILITY_THRESHOLD
     /\ goodRun' = goodRun + 1 => trackingStabilityCounter' = trackingStabilityCounter + 1
     /\ trackingStabilityCounter' # trackingStabilityCounter =>
          \/ /\ lastDecision' = "good"
             /\ trackingStabilityCounter' = trackingStabilityCounter + 1
          \/ /\ lastDecision' = "fail"
             /\ trackingStabilityCounter' = 0
     /\ trackingStabilityCounter' = goodRun']_vars

C8_Witness ==
  /\ trackingConfirmed
  /\ lastDecision = "good"
  /\ trackingStabilityCounter = TRACKING_STABILITY_THRESHOLD
  /\ goodRun = TRACKING_STABILITY_THRESHOLD

(* C9 as stated: after a processed frame that failed the thresholds, the
   stability counter is 0 and trackingConfirmed and isTracking are false. *)
C9_FailingFrameResets ==
  lastDecision = "fail" =>
    /\ trackingStabilityCounter = 0
    /\ ~trackingConfirmed
    /\ ~isTracking

(* C10 as stated: after a frame without a detected point, isTracking is false
   and the frame has no matches. *)
C10_BlankFrameNotTracking ==
  lastDecision = "blank" => (~isTracking /\ frameMatches = <<>>)

(* C13 as stated: in regular mode, once START_DELAY_FRAMES frames in a row
   have shown the target, isTracking is true, and it stays true on every
   further frame that shows the target. *)
C13_TargetFramesStartTracking ==
  targetRun >= START_DELAY_FRAMES => isTracking

(* C14 as stated: isTracking does not change on every frame of a sequence:
   there are no MaxRun frames in a row that each change it. *)
C14_NoTogglePerFrame ==
  changeRun < MaxRun

(* The condition under which the render shows the AR video:
   "{isTracking && trackingConfirmed && (<video ... />)}" *)
overlayRendered == isTracking /\ trackingConfirmed

(* C15: the AR video is rendered only when isTracking and trackingConfirmed
   are both true, and trackingConfirmed implies isTracking. *)
C15_ConfirmedImpliesTracking ==
  /\ overlayRendered => (isTracking /\ trackingConfirmed)
  /\ trackingConfirmed => isTracking

----------------------------------------------------------------------------
(* FrameProcessor: the descriptors of a session (frameProcessor.ts 29-87,
   249-283, 394-472).

   An image is made of vertical stripes eight pixels wide, of gray levels lo
   and hi: the three colour channels of a pixel are equal, its intensity
   0.299 r + 0.587 g + 0.114 b is its gray level, and its vertical gradient
   is 0.  Descriptor entries are integers in units of 1 / (255 * 16); the
   entries of the gradient histogram are quotients.  detectFeatures and
   detectFeaturesEnhanced stand as the lists of points they report. *)

Gray(img, x, y) == IF (x \div 8) % 2 = 0 THEN img.lo ELSE img.hi

Images == {[width |-> 40, height |-> 40, lo |-> 20, hi |-> 220],
           [width |-> 40, height |-> 40, lo |-> 100, hi |-> 150]}

DetectedPoints == {[x |-> 8, y |-> 20], [x |-> 4, y |-> 4]}

DetectedLists == SeqsUpTo(DetectedPoints, 2)

(* The offsets of "for (let d = -halfPatch; d < halfPatch; d += 4)" *)
PatchOffsets == <<-8, -4, 0, 4>>

(* computeDescriptor: the intensity at every pair of offsets, 0 outside the
   image, each minus the mean of all. *)
computeDescriptor(img, point) ==
  LET sample(k) ==
        LET x == point.x + PatchOffsets[((k - 1) % Len(PatchOffsets)) + 1]
            y == point.y + PatchOffsets[((k - 1) \div Len(PatchOffsets)) + 1]
        IN IF x < 0 \/ x >= img.width \/ y < 0 \/ y >= img.height
             THEN 0 ELSE Gray(img, x, y)
      descriptor == [k \in 1..(Len(PatchOffsets) * Len(PatchOffsets)) |-> sample(k)]
      sum == SumOver(1..Len(descriptor), descriptor)
  IN [k \in 1..Len(descriptor) |-> Len(descriptor) * descriptor[k] - sum]

(* The direction bin of a gradient (dx, 0):
   Math.floor((Math.atan2(0, dx) + PI) / (2 PI) * 8) % 8 *)
GradBin(dx) == IF dx < 0 THEN 0 ELSE 4

(* computeEnhancedDescriptor: r, g, b and the two forward differences at every
   pair of offsets around the clamped point, then the eight bins of the
   gradient histogram over the patch, divided by their sum. *)
computeEnhancedDescriptor(img, point) ==
  LET x == Min(IF point.x < 8 THEN 8 ELSE point.x, img.width - 8 - 1)
      y == Min(IF point.y < 8 THEN 8 ELSE point.y, img.height - 8 - 1)
      n == Len(PatchOffsets)
      cell(k) ==
        LET px == x + PatchOffsets[((k - 1) % n) + 1]
            py == y + PatchOffsets[((k - 1) \div n) + 1]
            v == Gray(img, px, py)
            inner == px < img.width - 1 /\ py < img.height - 1
        IN <<16 * v, 16 * v, 16 * v,
             IF inner THEN 16 * (Gray(img, px + 1, py) - v) ELSE 0,
             IF inner THEN 16 * (Gray(img, px, py + 1) - v) ELSE 0>>
      dx(px, py) == 3 * (Gray(img, px + 1, py) - Gray(img, px - 1, py))
      counted(px, py) ==
        ~(px < 1 \/ px >= img.width - 1 \/ py < 1 \/ py >= img.height - 1)
      row(b, j) ==
        [i \in -8..7 |->
           IF counted(x + i, y + j) /\ GradBin(dx(x + i, y + j)) = b
             THEN Abs(dx(x + i, y + j)) ELSE 0]
      gradHist == [b \in 0..7 |->
                     SumOver(-8..7, [j \in -8..7 |-> SumOver(-8..7, row(b, j))])]
      histSum == SumOver(0..7, gradHist)
  IN [e \in 1..(5 * n * n) |-> cell(((e - 1) \div 5) + 1)[((e - 1) % 5) + 1]]
     \o [b \in 1..8 |-> IF histSum > 0 THEN <<gradHist[b - 1], histSum>> ELSE <<0, 1>>]

(* processImage, and the tracking data App builds from its result *)
processImage(img, points) ==
  [i \in 1..Len(points) |-> [pt |-> points[i], descriptor |-> computeDescriptor(img, points[i])]]

AppTrackingData(img, points) ==
  LET features == processImage(img, points)
  IN [hasPoints |-> TRUE, points |-> [i \in 1..Len(features) |-> features[i].pt],
      width |-> img.width, height |-> img.height,
      features |-> [i \in 1..Len(features) |-> features[i].descriptor],
      imageUrl |-> TRUE, image |-> TargetImagePixels]

InitSession ==
  /\ \E img \in Images, points \in DetectedLists :
       Constructor(AppTrackingData(img, points))
  /\ NoCall
  /\ CameraMount

(* What getFrameData returns for a video frame whose image data after
   preprocessImage is img and in which detectFeaturesEnhanced reports the
   given points *)
getFrameData(img, points) ==
  LET features == [i \in 1..Len(points) |->
                     [pt |-> points[i],
                      descriptor |-> computeEnhancedDescriptor(img, points[i])]]
  IN [points |-> [i \in 1..Len(features) |-> features[i].pt],
      descriptors |-> [i \in 1..Len(features) |-> features[i].descriptor],
      width |-> img.width, height |-> img.height]

SessionFrames == {getFrameData(img, points) : img \in Images, points \in DetectedLists}

GetFrameData ==
  /\ \E fd \in SessionFrames : frameData' = fd
  /\ UNCHANGED <<trackerVars, callVars, compared, loopVars, isTracking, trackingConfirmed,
                 testMode, trackingStartFrameCount, lastFrameWasTracking,
                 trackingStabilityCounter, lastFramesRef, closure, frameMatches,
                 lastDecision, goodRun, lastUpdate>>

(* computeDistance on a frame descriptor and a reference descriptor of the
   session: the entries up to the shorter length are read. *)
ComputeDistance ==
  /\ \E q \in 1..Len(frameData.descriptors), t \in 1..Len(targetDescriptor) :
       compared' =
         [frameLength |-> Len(frameData.descriptors[q]),
          frameProcedure |-> "computeEnhancedDescriptor",
          targetLength |-> Len(targetDescriptor[t]),
          targetProcedure |-> "computeDescriptor",
          distanceSq |-> computeDistanceSq(frameData.descriptors[q], targetDescriptor[t])]
  /\ UNCHANGED <<trackerVars, callVars, cameraVars, loopVars>>

NextSession == GetFrameData \/ ComputeDistance \/ TargetImageOnload

SpecSession == InitSession /\ [][NextSession]_vars

(* C3 as stated: a reference descriptor and a frame descriptor that are
   compared have the same length and come from the same procedure. *)
C3_SameDescriptorShape ==
  compared # NoComparison =>
    /\ compared.frameLength = compared.targetLength
    /\ compared.frameProcedure = compared.targetProcedure

----------------------------------------------------------------------------
(* Camera variant with the frame-count guard (types/tracking.ts 35-187).  It
   calls matchFeatures(framePoints, width, height) with the bounding box of
   the frame points, the signature of the ImageTracker that matches by
   distance. *)

FRAME_BUFFER_SIZE == 10
MIN_FRAMES_BEFORE_CHANGE == 5
GUARD_START_TRACKING_THRESHOLD == 40
GUARD_STOP_TRACKING_THRESHOLD == 20
maxDistance == 10

MaxFrameCount == 7    \* largest value of frameCountRef
MaxSinceChange == 10  \* longest recorded run of frames without a change

(* "frameWidth / this.targetWidth", for a positive target size *)
scaleFactor(frameSize, targetSize) == RNorm(<<frameSize, targetSize>>)

(* "distance < maxDistance" for the target point scaled by sx and sy *)
WithinMaxDistance(framePoint, targetPoint, sx, sy) ==
  LET dx == framePoint.x * sx[2] - targetPoint.x * sx[1]
      dy == framePoint.y * sy[2] - targetPoint.y * sy[1]
  IN dx * dx * sy[2] * sy[2] + dy * dy * sx[2] * sx[2]
       < maxDistance * maxDistance * sx[2] * sx[2] * sy[2] * sy[2]

(* matchFeatures by distance: a frame point is matched when a scaled target
   point lies within maxDistance of it; the list of the matched queryIdx. *)
RECURSIVE matchByDistance(_, _, _, _, _, _, _)
matchByDistance(fps, n, frameWidth, frameHeight, tps, tw, th) ==
  IF n = 0 THEN <<>>
  ELSE LET rest == matchByDistance(fps, n - 1, frameWidth, frameHeight, tps, tw, th)
           sx == scaleFactor(frameWidth, tw)
           sy == scaleFactor(frameHeight, th)
       IN IF \E t \in 1..Len(tps) : WithinMaxDistance(fps[n], tps[t], sx, sy)
            THEN Append(rest, n) ELSE rest

(* The call of the loop: width and height are those of the bounding box of
   the frame points. *)
MatchCount(fps, tps, tw, th) ==
  LET xs == [i \in 1..Len(fps) |-> fps[i].x]
      ys == [i \in 1..Len(fps) |-> fps[i].y]
  IN Len(matchByDistance(fps, Len(fps), SeqMax(xs) - SeqMin(xs),
                         SeqMax(ys) - SeqMin(ys), tps, tw, th))

(* A reference of 50 points on a grid of step 30, and frames that show the
   first n of them, all of them displaced, or nothing. *)
GuardPoint(i) == [x |-> 30 * ((i - 1) % 10), y |-> 30 * ((i - 1) \div 10)]
GuardTD ==
  [hasPoints |-> TRUE, points |-> [i \in 1..50 |-> GuardPoint(i)],
   width |-> 270, height |-> 120, features |-> <<>>, imageUrl |-> FALSE,
   image |-> <<>>]
ShownFrame(n) == [i \in 1..n |-> IF i = n THEN GuardPoint(50) ELSE GuardPoint(i)]
MissFrame == [i \in 1..50 |-> [x |-> GuardPoint(i).x + 15, y |-> GuardPoint(i).y + 15]]
GuardFrames == {<<>>, MissFrame, ShownFrame(50)}

MatchCountTable ==
  [fps \in GuardFrames \ {<<>>} |->
     MatchCount(fps, GuardTD.points, GuardTD.width, GuardTD.height)]

(* lastFramesRef.current.push(n), then shift() beyond FRAME_BUFFER_SIZE *)
PushBufferBuggy(buffer, n) ==
  IF Len(buffer) >= FRAME_BUFFER_SIZE THEN buffer ELSE Append(buffer, n)

(* "lastFramesRef.current.push(matches.length)", then shift() when the buffer
   is longer than FRAME_BUFFER_SIZE *)
PushBuffer(buffer, n) ==
  LET pushed == Append(buffer, n)
  IN IF Len(pushed) > FRAME_BUFFER_SIZE THEN Tail(pushed) ELSE pushed

(* Math.round(sum / length) of a non-empty buffer of counts *)
AverageMatches(buffer) ==
  (2 * WindowSum(buffer) + Len(buffer)) \div (2 * Len(buffer))

ShouldBeTrackingBuggy(tracking, averageMatches) ==
  averageMatches >= GUARD_START_TRACKING_THRESHOLD

(* "isTracking ? averageMatches >= STOP_TRACKING_THRESHOLD
               : averageMatches >= START_TRACKING_THRESHOLD" *)
ShouldBeTracking(tracking, averageMatches) ==
  IF tracking THEN averageMatches >= GUARD_STOP_TRACKING_THRESHOLD
  ELSE averageMatches >= GUARD_START_TRACKING_THRESHOLD

GuardReachedBuggy(count) == count >= 1

(* "frameCountRef.current >= MIN_FRAMES_BEFORE_CHANGE" *)
GuardReached(count) == count >= MIN_FRAMES_BEFORE_CHANGE

InitGuard ==
  /\ Constructor(GuardTD)
  /\ NoCall
  /\ CameraMountAs("guard")

(* One call of processFrame (types/tracking.ts 61-157) with the state update
   it requests applied; isTracking is read from the closure. *)
ProcessFrameWithGuard ==
  \E fps \in GuardFrames :
    IF Len(fps) = 0
      THEN /\ lastDecision' = "blank"
           /\ UNCHANGED <<trackerVars, callVars, compared, loopVars, isTracking,
                          trackingConfirmed, testMode, trackingStartFrameCount,
                          lastFrameWasTracking, trackingStabilityCounter, lastFramesRef,
                          closure, frameData, frameMatches, goodRun, lastUpdate>>
      ELSE LET buffer == PushBuffer(lastFramesRef, MatchCountTable[fps])
               averageMatches == AverageMatches(buffer)
               count == frameCountRef + 1
               shouldBeTracking == ShouldBeTracking(closure.isTracking, averageMatches)
               change == shouldBeTracking # closure.isTracking /\ GuardReached(count)
               tracking1 == IF change THEN shouldBeTracking ELSE isTracking
               changed == tracking1 # isTracking
           IN /\ count <= MaxFrameCount
              /\ framesSinceChange + 1 <= MaxSinceChange
              /\ lastDecision' = "counted"
              /\ lastFramesRef' = buffer
              /\ lastAverage' = averageMatches
              /\ frameCountRef' = (IF change THEN 0 ELSE count)
              /\ isTracking' = tracking1
              /\ lastUpdate' = (IF change THEN shouldBeTracking ELSE lastUpdate)
              /\ lastChanged' = changed
              /\ framesSinceChange' = (IF changed THEN 0 ELSE framesSinceChange + 1)
              /\ changeAfter' = (IF changed THEN framesSinceChange + 1 ELSE changeAfter)
              /\ UNCHANGED <<trackerVars, callVars, compared, runVars, auxVars,
                             trackingConfirmed, testMode,
                             trackingStartFrameCount, lastFrameWasTracking,
                             trackingStabilityCounter, closure, frameData,
                             frameMatches, goodRun>>

(* The effect runs again after a render in which isTracking has changed
   (dependencies: trackingData, onTrackingUpdate, isTracking). *)
EffectRerunWithGuard ==
  /\ closure.isTracking # isTracking
  /\ closure' = Snapshot
  /\ UNCHANGED <<trackerVars, callVars, compared, loopVars, isTracking,
                 trackingConfirmed, testMode, trackingStartFrameCount,
                 lastFrameWasTracking, trackingStabilityCounter, lastFramesRef,
                 frameData, frameMatches, lastDecision, goodRun, lastUpdate>>

NextGuard == ProcessFrameWithGuard \/ EffectRerunWithGuard

SpecGuard == InitGuard /\ [][NextGuard]_vars

(* C11: isTracking turns true only on a frame whose average reaches the start
   threshold, turns false only on a frame whose average is below the stop
   threshold, and a frame whose average lies between the two thresholds
   changes isTracking in neither direction. *)
C11_BandKeepsState ==
  lastDecision = "counted" =>
    /\ GUARD_STOP_TRACKING_THRESHOLD < GUARD_START_TRACKING_THRESHOLD
    /\ (lastChanged /\ isTracking) => lastAverage >= GUARD_START_TRACKING_THRESHOLD
    /\ (lastChanged /\ ~isTracking) => lastAverage < GUARD_STOP_TRACKING_THRESHOLD
    /\ (/\ GUARD_STOP_TRACKING_THRESHOLD <= lastAverage
        /\ lastAverage < GUARD_START_TRACKING_THRESHOLD) => ~lastChanged

C11_Witness ==
  /\ lastDecision = "counted"
  /\ isTracking
  /\ closure.isTracking
  /\ frameCountRef >= MIN_FRAMES_BEFORE_CHANGE
  /\ lastAverage >= GUARD_STOP_TRACKING_THRESHOLD
  /\ lastAverage < GUARD_START_TRACKING_THRESHOLD

(* C12: a frame changes isTracking only as the MIN_FRAMES_BEFORE_CHANGE-th
   frame with points, or a later one, since the previous change or the start
   of the session, and leaves the frame counter at 0. *)
C12_MinFramesBetweenChanges ==
  lastChanged =>
    /\ changeAfter >= MIN_FRAMES_BEFORE_CHANGE
    /\ frameCountRef = 0
    /\ framesSinceChange = 0

C12_Witness ==
  /\ lastChanged
  /\ ~isTracking
  /\ changeAfter >= MIN_FRAMES_BEFORE_CHANGE
  /\ frameCountRef = 0

----------------------------------------------------------------------------
(* FrameProcessor: the two entry points that fetch a video frame
   (frameProcessor.ts 52-87 and 285-313) under a wall clock *)

PROCESS_INTERVAL == 50

MaxClock == 120   \* the clock stops this many milliseconds after StartTime

(* Milliseconds between two callbacks: an animation frame of a 100 Hz or a
   60 Hz display, and a full PROCESS_INTERVAL *)
TickSteps == {10, 16, PROCESS_INTERVAL}

(* A video element: whether it has a size yet, and whether getImageData
   succeeds on the canvas it was drawn to *)
Videos == [hasSize : BOOLEAN, readable : BOOLEAN]

ClockTick ==
  /\ \E d \in TickSteps :
       /\ now + d <= StartTime + MaxClock
       /\ now' = now + d
  /\ UNCHANGED <<trackerVars, callVars, cameraVars, compared, guardVars, runVars,
                 throwVars, buildVars, extraVars, teardownVars, lastProcessTime, entryPoint, detected, lastDetectTime,
                 detectGap>>

(* "now - this.lastProcessTime < this.PROCESS_INTERVAL" *)
TooSoon(t, last) == t - last < PROCESS_INTERVAL

(* detectFeatures / detectFeaturesEnhanced has run on a frame at time now *)
RunDetector ==
  /\ detected' = TRUE
  /\ detectGap' = (IF lastDetectTime = NoTime THEN NoTime ELSE now - lastDetectTime)
  /\ lastDetectTime' = now

(* FrameProcessor.processFrame (frameProcessor.ts 285-313) *)
FrameProcessorProcessFrame ==
  /\ \E video \in Videos :
       /\ entryPoint' = "processFrame"
       /\ IF TooSoon(now, lastProcessTime)
            THEN UNCHANGED <<lastProcessTime, lastDetectTime, detectGap>>
                 /\ detected' = FALSE
            ELSE /\ lastProcessTime' = now
                 /\ IF video.hasSize /\ video.readable
                      THEN RunDetector
                      ELSE UNCHANGED <<lastDetectTime, detectGap>> /\ detected' = FALSE
  /\ UNCHANGED <<trackerVars, callVars, cameraVars, compared, guardVars, runVars,
                 throwVars, buildVars, extraVars, teardownVars, now>>

(* FrameProcessor.getFrameData (frameProcessor.ts 52-87) *)
FrameProcessorGetFrameData ==
  /\ \E video \in Videos :
       /\ entryPoint' = "getFrameData"
       /\ IF video.hasSize /\ video.readable
            THEN RunDetector
            ELSE UNCHANGED <<lastDetectTime, detectGap>> /\ detected' = FALSE
  /\ UNCHANGED <<trackerVars, callVars, cameraVars, compared, guardVars, runVars,
                 throwVars, buildVars, extraVars, teardownVars, now, lastProcessTime>>

InitThrottle ==
  /\ Constructor(EmptyTD)
  /\ NoCall
  /\ CameraMount

NextThrottle == ClockTick \/ FrameProcessorProcessFrame \/ FrameProcessorGetFrameData

SpecThrottle == InitThrottle /\ [][NextThrottle]_vars

(* C16 as stated: two runs of the feature detector on one FrameProcessor are
   at least PROCESS_INTERVAL milliseconds apart, whichever of processFrame and
   getFrameData fetched the frames. *)
C16_OneDetectionPerInterval ==
  detectGap # NoTime => detectGap >= PROCESS_INTERVAL

ThrottleTypeOK ==
  /\ now \in StartTime..(StartTime + MaxClock)
  /\ lastProcessTime \in {0} \cup StartTime..now
  /\ lastDetectTime \in {NoTime} \cup StartTime..now
  /\ entryPoint \in {"none", "processFrame", "getFrameData"}

----------------------------------------------------------------------------
(* One session of the tracking effect: the frame loop split at the await of
   processFrame, and the cleanup of the effect (Camera.tsx 252-410 and
   656-723, types/tracking.ts 61-187) *)

MaxLoopFrames == 10  \* frames one session processes

(* getUserMedia has resolved and onloadedmetadata fires: "processFrame()",
   which runs up to its await.  Nothing in the handler looks at whether the
   cleanup has run. *)
OnLoadedMetadata ==
  /\ streamPending
  /\ streamPending' = FALSE
  /\ loopPc' = "suspended"
  /\ UNCHANGED <<trackerVars, callVars, cameraVars, compared, guardVars, runVars,
                 throwVars, buildVars, extraVars, clockVars, variant, rafPending, tornDown, framesProcessed,
                 requestedAfterTeardown, processedAfterTeardown>>

(* The browser runs the pending animation frame callback: processFrame runs
   up to "await frameProcessor.getFrameData(currentVideo)" (or processFrame) *)
AnimationFrame ==
  /\ rafPending
  /\ loopPc = "idle"
  /\ rafPending' = FALSE
  /\ loopPc' = "suspended"
  /\ UNCHANGED <<trackerVars, callVars, cameraVars, compared, guardVars, runVars,
                 throwVars, buildVars, extraVars, clockVars, variant, streamPending, tornDown, framesProcessed,
                 requestedAfterTeardown, processedAfterTeardown>>

(* processFrame from its await to its end: the frame is processed and, in the
   try block as in the catch block, the next animation frame is requested. *)
ResumeProcessFrame ==
  /\ loopPc = "suspended"
  /\ framesProcessed < MaxLoopFrames
  /\ loopPc' = "idle"
  /\ framesProcessed' = framesProcessed + 1
  /\ processedAfterTeardown' = (processedAfterTeardown \/ tornDown)
  /\ rafPending' = TRUE
  /\ requestedAfterTeardown' = (requestedAfterTeardown \/ tornDown)
  /\ UNCHANGED <<trackerVars, callVars, cameraVars, compared, guardVars, runVars,
                 throwVars, buildVars, extraVars, clockVars, variant, streamPending, tornDown>>

(* The cleanup of the effect: "cancelAnimationFrame(animationFrame)" *)
Cleanup ==
  /\ ~tornDown
  /\ tornDown' = TRUE
  /\ rafPending' = FALSE
  /\ UNCHANGED <<trackerVars, callVars, cameraVars, compared, guardVars, runVars,
                 throwVars, buildVars, extraVars, clockVars, variant, loopPc, streamPending, framesProcessed,
                 requestedAfterTeardown, processedAfterTeardown>>

InitTeardown ==
  /\ Constructor(EmptyTD)
  /\ NoCall
  /\ \E v \in Variants : CameraMountAs(v)

NextTeardown == OnLoadedMetadata \/ AnimationFrame \/ ResumeProcessFrame \/ Cleanup

SpecTeardown == InitTeardown /\ [][NextTeardown]_vars

(* C17 as stated: once the cleanup of the effect has run, the session's
   processFrame processes no frame and requests no animation frame. *)
C17_NoFrameAfterTeardown ==
  tornDown => /\ ~processedAfterTeardown
              /\ ~requestedAfterTeardown
              /\ ~rafPending

TeardownTypeOK ==
  /\ variant \in Variants
  /\ loopPc \in {"idle", "suspended"}
  /\ framesProcessed \in 0..MaxLoopFrames
  /\ ~(rafPending /\ loopPc = "suspended")

----------------------------------------------------------------------------
(* Camera component: a frame in which a step of processFrame throws
   (Camera.tsx 252-390) *)

(* The steps that can throw: "getFrameData", whose drawImage is outside its
   own try block (frameProcessor.ts 57-59), before any update of the frame;
   the callback onTrackingUpdate (Camera.tsx 357) and drawDebugView
   (Camera.tsx 377), both after the updates of the frame. *)
ThrowPoints == {"getFrameData", "onTrackingUpdate", "drawDebugView"}

(* One call of processFrame in which the step "at" throws, or none does.
   The catch block (Camera.tsx 386-389) logs the error and requests the next
   animation frame; what the frame had written before the throw stays. *)
ProcessFrameMayThrow ==
  \E fd \in CameraFrames, at \in ThrowPoints \cup {"none"} :
    LET hasPoints == Len(fd.points) > 0
        should == IF closure.testMode THEN PatternOf(fd, trackingData)
                  ELSE RegularDecision(closure, debugInfo.matchQuality,
                                       PushWindow(lastFramesRef, 0)).should
    IN /\ at = "onTrackingUpdate" => (hasPoints /\ should # closure.isTracking)
       /\ at = "drawDebugView" => hasPoints
       /\ IF at = "getFrameData"
            THEN UNCHANGED <<trackerVars, callVars, cameraVars, compared, guardVars,
                             runVars>>
            ELSE FrameUpdates(fd)
       /\ thrownAt' = at
       /\ preTracking' = (IF at = "none" THEN FALSE ELSE isTracking)
       /\ preCounter' = (IF at = "none" THEN 0 ELSE trackingStabilityCounter)
       /\ nextFrameRequested' = TRUE
       /\ UNCHANGED <<clockVars, teardownVars, buildVars, extraVars>>

InitThrow ==
  /\ Constructor(CameraTD)
  /\ NoCall
  /\ CameraMount

NextThrow == ProcessFrameMayThrow \/ EffectRerun \/ HandleKeyDown

SpecThrow == InitThrow /\ [][NextThrow]_vars

(* C18 as stated: after a frame in which a step threw, isTracking and the
   stability counter have the values they had before the frame, and the next
   animation frame has been requested. *)
C18_ThrowKeepsState ==
  thrownAt # "none" =>
    /\ isTracking = preTracking
    /\ trackingStabilityCounter = preCounter
    /\ nextFrameRequested

(* The part of C18 that holds: every frame, thrown or not, requests the next *)
ThrowStillRequestsFrame ==
  thrownAt # "none" => nextFrameRequested

----------------------------------------------------------------------------
(* Building the reference model: processImage on the uploaded image
   (frameProcessor.ts 29-50, App.tsx 187-238) and the constructor of
   ImageTracker (tracker.ts 18-57) *)

(* Uploaded images whose onload has fired, among them images without pixels *)
EmptyImages ==
  {[width |-> w, height |-> h, lo |-> 20, hi |-> 220] :
     w \in {0, 40}, h \in {0, 40}} \ Images

UploadedImages == Images \cup EmptyImages

(* processImage with its try block: drawImage draws nothing for an image
   without pixels, and getImageData on a canvas of width or height 0 throws
   inside the try block, whose catch block returns []. *)
processImageOutcome(img, points) ==
  IF img.width = 0 \/ img.height = 0
    THEN [threw |-> FALSE, features |-> <<>>]
    ELSE [threw |-> FALSE, features |-> processImage(img, points)]

(* handleImageUpload, tabulated once for the images and point lists above *)
UploadTable ==
  {[img |-> img, points |-> points, outcome |-> processImageOutcome(img, points),
    trackingData |-> AppTrackingData(img, IF img \in EmptyImages THEN <<>> ELSE points)] :
     img \in UploadedImages, points \in DetectedLists}

(* The fields the constructor of ImageTracker leaves for tracking data with
   fewer than FINGERPRINT_POINTS points *)
ConstructedModel(td) ==
  [targetPoints |-> IF td.hasPoints THEN td.points ELSE <<>>,
   targetWidth |-> IF td.hasPoints THEN td.width ELSE 0,
   targetHeight |-> IF td.hasPoints THEN td.height ELSE 0,
   targetDescriptor |-> IF td.hasPoints /\ Len(td.features) > 0 THEN td.features ELSE <<>>,
   targetFingerprint |-> <<>>,
   colorHistogram |-> <<>>]

ReferenceModel ==
  [targetPoints |-> targetPoints, targetWidth |-> targetWidth,
   targetHeight |-> targetHeight, targetDescriptor |-> targetDescriptor,
   targetFingerprint |-> targetFingerprint, colorHistogram |-> colorHistogram]

(* img.onload of handleImageUpload (App.tsx 187-238) *)
HandleImageUpload ==
  /\ \E row \in UploadTable :
       /\ uploaded' = row.img
       /\ lastBuild' = [op |-> "processImage", threw |-> row.outcome.threw]
       /\ appTrackingData' = (IF row.outcome.threw THEN appTrackingData
                              ELSE row.trackingData)
  /\ UNCHANGED <<trackerVars, callVars, cameraVars, compared, guardVars, runVars,
                 clockVars, teardownVars, throwVars, extraVars>>

(* "new ImageTracker(trackingData)" (tracker.ts 18-57) on the tracking data
   of App or on missing tracking data; the constructor returns normally in
   both cases. *)
NewImageTracker ==
  /\ \E td \in {appTrackingData, NullTD} :
       LET m == ConstructedModel(td)
       IN /\ trackingData' = td
          /\ targetPoints' = m.targetPoints
          /\ targetWidth' = m.targetWidth
          /\ targetHeight' = m.targetHeight
          /\ targetDescriptor' = m.targetDescriptor
          /\ targetFingerprint' = m.targetFingerprint
          /\ colorHistogram' = m.colorHistogram
  /\ targetImageLoaded' = FALSE
  /\ lastConsistencyRatio' = <<0, 1>>
  /\ lastMatches' = <<>>
  /\ debugInfo' = EmptyDebugInfo
  /\ lastBuild' = [op |-> "constructor", threw |-> FALSE]
  /\ UNCHANGED <<callVars, cameraVars, compared, guardVars, runVars,
                 clockVars, teardownVars, throwVars, extraVars, uploaded, appTrackingData>>

InitBuild ==
  /\ Constructor(NullTD)
  /\ NoCall
  /\ CameraMount

NextBuild == HandleImageUpload \/ NewImageTracker

SpecBuild == InitBuild /\ [][NextBuild]_vars

(* C19 as stated: processImage on an image of width or height 0 and the
   constructor on missing tracking data end with an error: the former returns
   no empty feature list, the latter no model with the default geometry. *)
C19_EmptyImageFails ==
  /\ (lastBuild.op = "processImage" /\ (uploaded.width = 0 \/ uploaded.height = 0))
       => lastBuild.threw
  /\ (lastBuild.op = "constructor" /\ ~trackingData.hasPoints) => lastBuild.threw
  /\ lastBuild.op = "constructor"
       => ~(targetWidth = 0 /\ targetHeight = 0 /\ targetPoints = <<>>)

BuildTypeOK ==
  /\ uploaded \in UploadedImages \cup {NoImage}
  /\ lastBuild.op \in {"none", "processImage", "constructor"}
  /\ Len(targetPoints) < FINGERPRINT_POINTS

----------------------------------------------------------------------------
(* The reference model of a session *)

(* C20 as stated: after the constructor has returned, targetPoints,
   targetDescriptor, targetWidth, targetHeight, targetFingerprint and
   colorHistogram keep the values the constructor gave them, whatever
   matchFeatures and the onload handler of the target image do. *)
C20_ModelReadOnly == ReferenceModel = ConstructedModel(trackingData)

----------------------------------------------------------------------------
(* lastMatches after a call of matchFeatures *)

getLastMatches == lastMatches

(* C30 as stated: when matchFeatures has returned, on each of its return
   paths (no target points, missing descriptors, fewer than 8 matches,
   verified inliers), getLastMatches() is the list that this call
   returned. *)
C30_LastMatchesIsReturned ==
  (pc = "idle" /\ caller = "matchFeatures"
     /\ returned.path \in {"noTargetPoints", "missingDescriptors",
                           "tooFewMatches", "verified"}) =>
    getLastMatches = returned.value

----------------------------------------------------------------------------
(* Order and length of the list of findBestMatchesWithRatioTest *)

PassingQueries == {q \in 1..Len(frameDescriptors) : Passes(q)}

(* C24: the list returned by findBestMatchesWithRatioTest is in non-decreasing
   order of distance and has at most 100 elements; it holds every match that
   passed the ratio test when at most 100 did, and otherwise 100 of them,
   none of which is farther than a match that was left out. *)
C24_SortedTop100 ==
  Applied =>
    /\ \A k \in 1..(Len(matches) - 1) :
         matches[k].distanceSq <= matches[k + 1].distanceSq
    /\ Len(matches) <= TOP_MATCHES
    /\ Len(matches) = Min(Cardinality(PassingQueries), TOP_MATCHES)
    /\ \A k \in 1..Len(matches) : matches[k].queryIdx \in PassingQueries
    /\ \A q \in PassingQueries, t \in 1..Len(targetDescriptor),
          k \in 1..Len(matches) :
         (Nearest(q, t) /\ ~Emitted(q)) => matches[k].distanceSq <= DistSq(q, t)

(* More than 100 frame descriptors pass, at different distances, and 100 are
   returned. *)
C24_Witness ==
  /\ Applied
  /\ Cardinality(PassingQueries) > TOP_MATCHES
  /\ Len(matches) = TOP_MATCHES
  /\ matches[1].distanceSq < matches[TOP_MATCHES].distanceSq
  /\ ~Emitted(1)

----------------------------------------------------------------------------
(* Quotients in checkInliers *)

(* The quotient "Math.abs(scale - scaleEstimate) / scaleEstimate" is evaluated
   with scaleEstimate = 0: checkInliers reaches its second loop with a median
   scale of 0 and meets a sample of another queryIdx at a non-zero target
   distance. *)
DividesByZeroEstimate(samples, all, fps, tps) ==
  LET scales == SampleScales(SamplePairs(1, 2, Len(samples)), samples, fps, tps)
  IN /\ ~CheckInliersThrows(samples, all, fps, tps)
     /\ scales # <<>>
     /\ MedianScale(SortScales(scales, Len(scales)))[1] = 0
     /\ \E n \in 1..Len(all), k \in 1..Len(samples) :
          /\ all[n].queryIdx # samples[k].queryIdx
          /\ getDistanceSq(tps[all[n].trainIdx], tps[samples[k].trainIdx]) # 0

(* C23 as stated: no sample that an iteration of verifyGeometry can draw
   makes checkInliers divide by a scaleEstimate of 0. *)
C23_NoZeroDenominator ==
  pc = "verify" =>
    \A S \in getRandomIndices(SAMPLE_SIZE, Len(matches)) :
      ~DividesByZeroEstimate(SamplesAt(S, matches), matches, framePoints, targetPoints)

----------------------------------------------------------------------------
(* The inlier test of checkInliers *)

(* |scale - scaleEstimate| / scaleEstimate <= tol, for the squared scales s
   and e: a quotient that exists and is at most tol. *)
WithinTolerance(s, e, tol) ==
  /\ e[1] # 0
  /\ ~RLess(RMul(<<(tol[2] + tol[1]) * (tol[2] + tol[1]), tol[2] * tol[2]>>, RNorm(e)),
            RNorm(s))
  /\ ~RLess(RNorm(s),
            RMul(<<(tol[2] - tol[1]) * (tol[2] - tol[1]), tol[2] * tol[2]>>, RNorm(e)))

PassesInlierTest(match, samples, fps, tps, est) ==
  \A k \in 1..Len(samples) :
    LET f == getDistanceSq(fps[match.queryIdx], fps[samples[k].queryIdx])
        t == getDistanceSq(tps[match.trainIdx], tps[samples[k].trainIdx])
    IN (match.queryIdx # samples[k].queryIdx /\ t # 0) =>
         WithinTolerance(<<f, t>>, est, SCALE_TOLERANCE)

InliersAsClaimed(samples, all, fps, tps) ==
  LET scales == SampleScales(SamplePairs(1, 2, Len(samples)), samples, fps, tps)
      est == MedianScale(SortScales(scales, Len(scales)))
      r == checkInliers(samples, all, fps, tps)
  IN (~r.threw /\ scales # <<>>) =>
       \A n \in 1..Len(all) :
         (\E i \in 1..Len(r.inliers) : r.inliers[i] = all[n])
           <=> PassesInlierTest(all[n], samples, fps, tps, est)

(* C26 as stated: for every sample an iteration of verifyGeometry can draw,
   checkInliers keeps a match as an inlier if and only if, for every sample of
   another queryIdx at a non-zero target distance, the deviation of its scale
   from scaleEstimate, divided by scaleEstimate, is at most 0.25; the samples
   themselves are tested like every other match. *)
C26_InlierIffWithinTolerance ==
  pc = "verify" =>
    \A S \in getRandomIndices(SAMPLE_SIZE, Len(matches)) :
      InliersAsClaimed(SamplesAt(S, matches), matches, framePoints, targetPoints)

----------------------------------------------------------------------------
(* getRandomIndices as a loop (tracker.ts 463-469): one step per draw *)

MaxDrawCount == 4
MaxDrawMax == 8

SetAddBuggy(set, v) == Append(set, v)

(* "indices.add(v)" on a Set, kept in its insertion order *)
SetAdd(set, v) ==
  IF \E i \in 1..Len(set) : set[i] = v THEN set ELSE Append(set, v)

(* "while (indices.size < count && indices.size < max)" *)
LoopContinues(size, count, max) == size < count /\ size < max

GetRandomIndices ==
  /\ drawPc \in {"idle", "returned"}
  /\ \E count \in 0..MaxDrawCount, max \in 0..MaxDrawMax :
       /\ drawCount' = count
       /\ drawMax' = max
  /\ indices' = <<>>
  /\ drawPc' = "loop"
  /\ UNCHANGED <<trackerVars, callVars, cameraVars, compared, guardVars, runVars,
                 clockVars, teardownVars, throwVars, buildVars, notified, sessionVars, detectVars>>

(* One pass of the loop body: Math.floor(Math.random() * max) is any of the
   max indices, written 1..max here as everywhere in the model. *)
DrawIndex ==
  /\ drawPc = "loop"
  /\ LoopContinues(Len(indices), drawCount, drawMax)
  /\ \E v \in 1..drawMax : indices' = SetAdd(indices, v)
  /\ UNCHANGED <<trackerVars, callVars, cameraVars, compared, guardVars, runVars,
                 clockVars, teardownVars, throwVars, buildVars, notified, sessionVars, detectVars,
                 drawPc, drawCount, drawMax>>

(* "return Array.from(indices)" *)
ReturnIndices ==
  /\ drawPc = "loop"
  /\ ~LoopContinues(Len(indices), drawCount, drawMax)
  /\ drawPc' = "returned"
  /\ UNCHANGED <<trackerVars, callVars, cameraVars, compared, guardVars, runVars,
                 clockVars, teardownVars, throwVars, buildVars, notified, sessionVars, detectVars,
                 drawCount, drawMax, indices>>

InitDraw ==
  /\ Constructor(EmptyTD)
  /\ NoCall
  /\ CameraMount

NextDraw == GetRandomIndices \/ DrawIndex \/ ReturnIndices

SpecDraw == InitDraw /\ [][NextDraw]_vars

(* Fair random draws: a draw that adds an index stays possible as long as the
   loop runs, so one is made at last; the loop's exit is taken when its
   condition fails. *)
SpecDrawFair == SpecDraw /\ WF_vars(DrawIndex) /\ WF_vars(ReturnIndices)

ReturnedIndices == {indices[i] : i \in 1..Len(indices)}

(* C28: a call of getRandomIndices(count, max) returns under fair draws, and
   what it returns are exactly min(count, max) pairwise distinct indices of
   the range of max indices: one of the samples verifyGeometry is modelled
   with, and 4 distinct matches whenever count is 4 and max at least 8. *)
C28_DrawsDistinctIndices ==
  /\ [](drawPc = "returned" =>
          /\ Len(indices) = Min(drawCount, drawMax)
          /\ \A i, j \in 1..Len(indices) : i # j => indices[i] # indices[j]
          /\ \A i \in 1..Len(indices) : indices[i] \in 1..drawMax
          /\ ReturnedIndices \in getRandomIndices(drawCount, drawMax))
  /\ (drawPc = "loop" ~> drawPc = "returned")

C28_Witness ==
  /\ drawPc = "returned"
  /\ drawCount = SAMPLE_SIZE
  /\ drawMax = VERIFY_MIN_MATCHES
  /\ Len(indices) = SAMPLE_SIZE

----------------------------------------------------------------------------
(* The window of match counts *)

(* The length the window is trimmed to: FRAME_BUFFER_SIZE in types/tracking.ts,
   MAX_FRAMES in getAverageMatches of Camera.tsx. *)
WindowSize == IF variant = "guard" THEN FRAME_BUFFER_SIZE ELSE MAX_FRAMES

(* after is before with one count added at its end and, if that made it
   longer than n, without its oldest count *)
FifoPush(before, after, n) ==
  /\ Len(after) = Min(Len(before) + 1, n)
  /\ \A i \in 1..(Len(after) - 1) :
       after[i] = before[i + Len(before) + 1 - Len(after)]

(* A step in which a frame's count went into the window: in types/tracking.ts
   every such frame moves frameCountRef. *)
CountPushed ==
  IF variant = "guard" THEN frameCountRef' # frameCountRef
  ELSE lastFramesRef' # lastFramesRef

(* C27: the window is a first-in first-out buffer of the most recent counts.
   Each counted frame appends its count and drops the oldest one once
   WindowSize counts are held, nothing else changes the window, its length
   never exceeds WindowSize, and it is not empty when the average has been
   taken. *)
C27_WindowIsFifo ==
  /\ [](/\ Len(lastFramesRef) <= WindowSize
        /\ lastDecision = "counted" => Len(lastFramesRef) >= 1)
  /\ [][IF CountPushed
          THEN FifoPush(lastFramesRef, lastFramesRef', WindowSize)
          ELSE lastFramesRef' = lastFramesRef]_vars

(* More frames than the window holds: tracking has started and stopped again,
   and the counts that started it have all left the window, which holds
   FRAME_BUFFER_SIZE counts of 0. *)
C27_Witness ==
  /\ variant = "guard"
  /\ lastDecision = "counted"
  /\ ~isTracking /\ changeAfter > 0
  /\ Len(lastFramesRef) = FRAME_BUFFER_SIZE
  /\ \A i \in 1..Len(lastFramesRef) : lastFramesRef[i] = 0

----------------------------------------------------------------------------
(* The calls of onTrackingUpdate by the frames of a Camera session *)

LastTwo(s) == IF Len(s) > 2 THEN SubSeq(s, Len(s) - 1, Len(s)) ELSE s

(* processFrame with the calls "onTrackingUpdate(shouldBeTracking)" of
   Camera.tsx 356-358 recorded: the call is made inside
   "if (shouldBeTracking !== isTracking)", isTracking being the value the
   closure holds, on a frame with points. *)
ProcessFrameNotifying ==
  \E fd \in CameraFrames :
    /\ FrameUpdates(fd)
    /\ LET should == lastDecision' = "good"
           called == lastDecision' # "blank" /\ should # closure.isTracking
       IN notified' = (IF called THEN LastTwo(Append(notified, should)) ELSE notified)
    /\ UNCHANGED <<clockVars, teardownVars, throwVars, buildVars, drawVars, sessionVars, detectVars>>

InitNotify ==
  /\ Constructor(CameraTD)
  /\ NoCall
  /\ CameraMount

NextNotify == ProcessFrameNotifying \/ EffectRerun \/ HandleKeyDown

SpecNotify == InitNotify /\ [][NextNotify]_vars

(* C29 as stated: two calls of onTrackingUpdate in a row never carry the same
   value, whether or not the effect has re-run between the two frames. *)
C29_NotificationsAlternate ==
  Len(notified) = 2 => notified[1] # notified[2]

----------------------------------------------------------------------------
(* Two sessions.  A call runs on the instances of one session; the variables
   of the tracker and lastProcessTime show the fields of the session that is
   running, and "other" holds the fields of the session that is not.  A call
   is synchronous, so the sessions alternate between calls only. *)

(* Session A tracks a reference with an image, session B the same points and
   descriptors without one. *)
SessionTD == [A |-> SceneTD(SceneSize, SceneSize, TRUE),
              B |-> SceneTD(SceneSize, SceneSize, FALSE)]

(* Frames of either session: the target in full, and the same frame without
   descriptors. *)
TwoSessionFrames ==
  {SceneFrame(MIN_MATCHES, MIN_MATCHES, MIN_MATCHES),
   [SceneFrame(MIN_MATCHES, MIN_MATCHES, MIN_MATCHES) EXCEPT !.descriptors = <<>>]}

(* matchFeatures called by the running session *)
SessionMatchFeatures ==
  /\ pc = "idle"
  /\ \E f \in TwoSessionFrames : MatchFeaturesOf(f)

(* All that the two classes declare is instance fields (tracker.ts 4-16,
   frameProcessor.ts 19-22); neither file has a static member or a variable
   of module scope. *)
InstanceFields ==
  [trackingData |-> trackingData, targetPoints |-> targetPoints,
   targetWidth |-> targetWidth, targetHeight |-> targetHeight,
   targetDescriptor |-> targetDescriptor, targetFingerprint |-> targetFingerprint,
   targetImageLoaded |-> targetImageLoaded, colorHistogram |-> colorHistogram,
   lastConsistencyRatio |-> lastConsistencyRatio, lastMatches |-> lastMatches,
   debugInfo |-> debugInfo, lastProcessTime |-> lastProcessTime]

FieldValueBuggy(own, current) == current

(* What "this.field" reads in a session that runs after the other one: the
   value of its own instance, not the one the other session's calls left. *)
FieldValue(own, current) == own

(* The locals of the call that has returned are gone. *)
ReturnedToCaller ==
  /\ pc' = "idle"
  /\ caller' = "none"
  /\ framePoints' = <<>>
  /\ frameDescriptors' = <<>>
  /\ matches' = <<>>
  /\ iter' = 0
  /\ bestInliers' = <<>>
  /\ bestRatio' = <<0, 1>>
  /\ iterResults' = {}
  /\ verifyResult' = NoResult
  /\ returned' = [path |-> "none", value |-> <<>>]

(* The next call is one of the other session. *)
SwitchSession ==
  /\ pc = "idle"
  /\ session' = (IF session = "A" THEN "B" ELSE "A")
  /\ other' = InstanceFields
  /\ trackingData' = other.trackingData
  /\ targetPoints' = other.targetPoints
  /\ targetWidth' = other.targetWidth
  /\ targetHeight' = other.targetHeight
  /\ targetDescriptor' = other.targetDescriptor
  /\ targetFingerprint' = other.targetFingerprint
  /\ targetImageLoaded' = FieldValue(other.targetImageLoaded, targetImageLoaded)
  /\ colorHistogram' = FieldValue(other.colorHistogram, colorHistogram)
  /\ lastConsistencyRatio' = other.lastConsistencyRatio
  /\ lastMatches' = FieldValue(other.lastMatches, lastMatches)
  /\ debugInfo' = FieldValue(other.debugInfo, debugInfo)
  /\ lastProcessTime' = FieldValue(other.lastProcessTime, lastProcessTime)
  /\ ReturnedToCaller
  /\ UNCHANGED <<cameraVars, compared, guardVars, runVars, teardownVars,
                 throwVars, buildVars, drawVars, notified, detectVars,
                 now, entryPoint, detected, lastDetectTime, detectGap>>

(* "new ImageTracker(td)" and "new FrameProcessor()" in the running session *)
NewSessionInstances ==
  /\ pc = "idle"
  /\ ~trackingData.hasPoints
  /\ \E td \in {SessionTD[session]} :
       LET new == NewInstances(td)
       IN /\ trackingData' = new.trackingData
          /\ targetPoints' = new.targetPoints
          /\ targetWidth' = new.targetWidth
          /\ targetHeight' = new.targetHeight
          /\ targetDescriptor' = new.targetDescriptor
          /\ targetFingerprint' = new.targetFingerprint
          /\ targetImageLoaded' = new.targetImageLoaded
          /\ colorHistogram' = new.colorHistogram
          /\ lastConsistencyRatio' = new.lastConsistencyRatio
          /\ lastMatches' = new.lastMatches
          /\ debugInfo' = new.debugInfo
          /\ lastProcessTime' = new.lastProcessTime
  /\ UNCHANGED <<callVars, cameraVars, compared, guardVars, runVars, teardownVars,
                 throwVars, buildVars, extraVars,
                 now, entryPoint, detected, lastDetectTime, detectGap>>

InitSessions ==
  /\ Constructor(NullTD)
  /\ NoCall
  /\ CameraMount

NextSessions ==
  \/ NewSessionInstances
  \/ SessionMatchFeatures
  \/ VerifyIteration
  \/ TargetImageOnload
  \/ FrameProcessorProcessFrame
  \/ SwitchSession

SpecSessions == InitSessions /\ [][NextSessions]_vars

(* C21: the calls of one session leave the fields of the other session's
   instances as they were, and a session that runs again finds its
   lastMatches, debugInfo, lastProcessTime and reference model as its own
   last call left them. *)
C21_SessionsIsolated ==
  [][IF session' # session
       THEN InstanceFields' = other /\ other' = InstanceFields
       ELSE other' = other]_vars

(* Both sessions have matched frames and run their detectors, with different
   results, and the session that is not running had its target image
   loaded. *)
C21_Witness ==
  /\ session = "B"
  /\ pc = "idle"
  /\ debugInfo.reset /\ other.debugInfo.reset
  /\ lastMatches # <<>> /\ other.lastMatches = <<>>
  /\ other.targetImageLoaded /\ ~targetImageLoaded
  /\ lastProcessTime # other.lastProcessTime

----------------------------------------------------------------------------
(* FrameProcessor.detectFeatures (frameProcessor.ts 127-247), one step for
   each row of cells of its grid.  A pixel buffer has its three colour channels
   equal, so that the gray level Math.round(0.299 r + 0.587 g + 0.114 b) is
   the level itself.  The weights 1, 1/2 and 1/3 of the 3 x 3 window are taken
   times 6, and a corner score stands as 36 times its square. *)

cellsX == 10
cellsY == 10
DEFAULT_MAX_POINTS == 500
MIN_POINTS_PER_CELL == 20

DetectWidth == 130
DetectHeight == 130
MaxPointsFew == 30
MaxPointsMany == 3000

threshold(detailed) == IF detailed THEN 3 ELSE 10
gridSize(detailed) == IF detailed THEN 3 ELSE 6

(* A buffer of level lo with textured rectangles: stripes two pixels wide of
   level lo + amp, and of lo + 2 amp in the right half of the rectangle. *)
PixelGray(img, x, y) ==
  LET inside == {t \in img.textured : x >= t.x0 /\ x < t.x1 /\ y >= t.y0 /\ y < t.y1}
  IN IF inside = {} \/ x % 4 < 2 THEN img.lo
     ELSE LET t == CHOOSE r \in inside : TRUE
          IN img.lo + (IF 2 * x >= t.x0 + t.x1 THEN 2 * t.amp ELSE t.amp)

GradX6(img, x, y) ==
  2 * (PixelGray(img, x + 1, y - 1) + PixelGray(img, x + 1, y + 1))
  + 3 * PixelGray(img, x + 1, y)
  - 2 * (PixelGray(img, x - 1, y - 1) + PixelGray(img, x - 1, y + 1))
  - 3 * PixelGray(img, x - 1, y)

GradY6(img, x, y) ==
  2 * (PixelGray(img, x - 1, y + 1) + PixelGray(img, x + 1, y + 1))
  + 3 * PixelGray(img, x, y + 1)
  - 2 * (PixelGray(img, x - 1, y - 1) + PixelGray(img, x + 1, y - 1))
  - 3 * PixelGray(img, x, y - 1)

(* getCornerScore, and the same sums in the loop of detectFeatures *)
getCornerScoreSq(img, x, y) ==
  GradX6(img, x, y) * GradX6(img, x, y) + GradY6(img, x, y) * GradY6(img, x, y)

(* "cornerScore > threshold" *)
AboveThreshold(scoreSq, t) == scoreSq > 36 * t * t

(* The corners of one cell in the order of the two loops over y and x: above
   the threshold and with no neighbour of a larger score inside the bounds
   of the cell. *)
CellCorners(img, detailed, cell) ==
  LET g == gridSize(detailed)
      cellWidth == img.width \div cellsX
      cellHeight == img.height \div cellsY
      startX == (cell % cellsX) * cellWidth
      startY == (cell \div cellsX) * cellHeight
      endX == Min(startX + cellWidth, img.width - g)
      endY == Min(startY + cellHeight, img.height - g)
      isMax(x, y) ==
        \A ny \in -1..1, nx \in -1..1 :
          \/ nx = 0 /\ ny = 0
          \/ ~(x + nx >= startX /\ x + nx < endX /\ y + ny >= startY /\ y + ny < endY)
          \/ ~(getCornerScoreSq(img, x + nx, y + ny) > getCornerScoreSq(img, x, y))
      found == {p \in ((startX + g)..(endX - g - 1)) \X ((startY + g)..(endY - g - 1)) :
                  /\ AboveThreshold(getCornerScoreSq(img, p[1], p[2]), threshold(detailed))
                  /\ isMax(p[1], p[2])}
      place == [p \in found |->
                  Cardinality({q \in found : q[2] < p[2] \/ (q[2] = p[2] /\ q[1] <= p[1])})]
  IN [k \in 1..Cardinality(found) |->
        LET p == CHOOSE q \in found : place[q] = k
        IN [x |-> p[1], y |-> p[2], response |-> getCornerScoreSq(img, p[1], p[2])]]

(* A sort by decreasing response that keeps equal responses in their order *)
SortByResponse(ps) ==
  LET place == [i \in 1..Len(ps) |->
                  Cardinality({j \in 1..Len(ps) :
                     \/ ps[j].response > ps[i].response
                     \/ ps[j].response = ps[i].response /\ j <= i})]
  IN [k \in 1..Len(ps) |-> ps[CHOOSE i \in 1..Len(ps) : place[i] = k]]

Reversed(ps) == [k \in 1..Len(ps) |-> ps[Len(ps) + 1 - k]]

SortOutcomesBuggy(ps) == {SortByResponse(ps), SortByResponse(Reversed(ps))}

(* What "sort" can leave for an array: one order, the same in every run. *)
SortOutcomes(ps) == {SortByResponse(ps)}

CellLimitBuggy(maxPoints) == cellsX * cellsY

(* "Math.max(pointsPerCell, 20)" with pointsPerCell = floor(maxPoints / 100) *)
CellLimit(maxPoints) ==
  LET pointsPerCell == maxPoints \div (cellsX * cellsY)
  IN IF pointsPerCell > MIN_POINTS_PER_CELL THEN pointsPerCell ELSE MIN_POINTS_PER_CELL

StripedCells(amps) ==
  {[x0 |-> 13 * i, x1 |-> 13 * i + 13, y0 |-> 0, y1 |-> 13, amp |-> amps[i + 1]] :
     i \in 0..(Len(amps) - 1)}

DetectImages ==
  {[width |-> DetectWidth, height |-> DetectHeight, lo |-> 20,
    textured |-> StripedCells(<<10, 40>>)],
   [width |-> DetectWidth, height |-> DetectHeight, lo |-> 100,
    textured |-> StripedCells(<<30>>)]}

MaxPointsChoices == {MaxPointsFew, DEFAULT_MAX_POINTS, MaxPointsMany}

ThisCall ==
  [called |-> TRUE, image |-> dImage, detailed |-> dDetailed, maxPoints |-> dMaxPoints,
   result |-> dResult, lastProcessTime |-> dProcessTime]

(* detectFeatures is called; the call that has just returned may be the one
   remembered for comparison. *)
DetectFeatures ==
  /\ dPc \in {"idle", "returned"}
  /\ \E img \in DetectImages, detailed \in BOOLEAN, maxPoints \in MaxPointsChoices :
       /\ dImage' = img
       /\ dDetailed' = detailed
       /\ dMaxPoints' = maxPoints
  /\ previous' \in (IF dPc = "returned" THEN {previous, ThisCall} ELSE {previous})
  /\ dProcessTime' = lastProcessTime
  /\ dPc' = "cells"
  /\ dCell' = 0
  /\ dPoints' = <<>>
  /\ dCellCount' = 0
  /\ dCapped' = FALSE
  /\ dResult' = <<>>
  /\ UNCHANGED <<trackerVars, callVars, cameraVars, compared, guardVars, runVars,
                 clockVars, teardownVars, throwVars, buildVars, drawVars, notified,
                 sessionVars>>

(* CellCorners, tabulated once for the buffers the model draws. *)
CornerTable ==
  [img \in DetectImages |->
     [detailed \in BOOLEAN |->
        [cell \in 0..(cellsX * cellsY - 1) |-> CellCorners(img, detailed, cell)]]]

(* What the inner loop over cellX adds for the cells first .. first + n - 1:
   each cell's corners sorted and cut to the limit. *)
RECURSIVE RowOutcomes(_, _, _, _, _)
RowOutcomes(img, detailed, maxPoints, first, n) ==
  IF n = 0 THEN {[points |-> <<>>, most |-> 0, capped |-> FALSE]}
  ELSE LET corners == CornerTable[img][detailed][first + n - 1]
       IN {[points |-> b.points \o sliceTop(sorted, CellLimit(maxPoints)),
            most |-> IF Len(sliceTop(sorted, CellLimit(maxPoints))) > b.most
                       THEN Len(sliceTop(sorted, CellLimit(maxPoints))) ELSE b.most,
            capped |-> b.capped \/ Len(sorted) > CellLimit(maxPoints)] :
             b \in RowOutcomes(img, detailed, maxPoints, first, n - 1),
             sorted \in SortOutcomes(corners)}

(* One pass of the loop over cellY: the cells of one row *)
DetectCellRow ==
  /\ dPc = "cells"
  /\ dCell < cellsX * cellsY
  /\ \E row \in RowOutcomes(dImage, dDetailed, dMaxPoints, dCell, cellsX) :
       /\ dPoints' = dPoints \o row.points
       /\ dCellCount' = row.most
       /\ dCapped' = (dCapped \/ row.capped)
  /\ dCell' = dCell + cellsX
  /\ UNCHANGED <<trackerVars, callVars, cameraVars, compared, guardVars, runVars,
                 clockVars, teardownVars, throwVars, buildVars, drawVars, notified,
                 sessionVars, dPc, dImage, dDetailed, dMaxPoints, dResult,
                 dProcessTime, previous>>

(* "points.sort(...)", ".slice(0, maxPoints)" and ".map(corner => ({x, y}))" *)
ReturnPoints ==
  /\ dPc = "cells"
  /\ dCell = cellsX * cellsY
  /\ \E sorted \in SortOutcomes(dPoints) :
       /\ dPoints' = sorted
       /\ dResult' = [k \in 1..Len(sliceTop(sorted, dMaxPoints)) |->
                        [x |-> sorted[k].x, y |-> sorted[k].y]]
  /\ dPc' = "returned"
  /\ UNCHANGED <<trackerVars, callVars, cameraVars, compared, guardVars, runVars,
                 clockVars, teardownVars, throwVars, buildVars, drawVars, notified,
                 sessionVars, dImage, dDetailed, dMaxPoints, dCell, dCellCount,
                 dCapped, dProcessTime, previous>>

(* Another method of the same FrameProcessor runs between two calls. *)
ProcessFrameBetweenCalls ==
  /\ dPc = "returned"
  /\ FrameProcessorProcessFrame

InitDetect ==
  /\ Constructor(EmptyTD)
  /\ NoCall
  /\ CameraMount

NextDetect == DetectFeatures \/ DetectCellRow \/ ReturnPoints \/ ProcessFrameBetweenCalls

SpecDetect == InitDetect /\ [][NextDetect]_vars

SameArguments ==
  /\ previous.called
  /\ previous.image = dImage
  /\ previous.detailed = dDetailed
  /\ previous.maxPoints = dMaxPoints

(* C22: a call of detectFeatures returns the list that an earlier call with
   the same pixel buffer, detailed flag and maxPoints returned, the same
   points in the same order, whatever was called on the FrameProcessor in
   between. *)
C22_SameInputSamePoints ==
  (dPc = "returned" /\ SameArguments) => dResult = previous.result

(* Two runs on the same arguments returned points, with another call of
   detectFeatures and a processFrame that moved lastProcessTime between
   them. *)
C22_Witness ==
  /\ dPc = "returned"
  /\ SameArguments
  /\ Len(dResult) > MIN_POINTS_PER_CELL
  /\ previous.lastProcessTime # dProcessTime

ResponseAt(k) == getCornerScoreSq(dImage, dResult[k].x, dResult[k].y)

(* C25: detectFeatures returns at most maxPoints points, in non-increasing
   order of their corner response and all inside the image, and no cell has
   added more than max(floor(maxPoints / 100), 20) points to the list that
   is cut to maxPoints. *)
C25_BoundedSortedInside ==
  /\ dCellCount <= MIN_POINTS_PER_CELL \/ 100 * dCellCount <= dMaxPoints
  /\ dPc = "returned" =>
       /\ Len(dResult) <= dMaxPoints
       /\ \A k \in 1..(Len(dResult) - 1) : ResponseAt(k) >= ResponseAt(k + 1)
       /\ \A k \in 1..Len(dResult) :
            /\ dResult[k].x >= 0 /\ dResult[k].x < dImage.width
            /\ dResult[k].y >= 0 /\ dResult[k].y < dImage.height

(* Cells were cut to their limit, the list was cut to maxPoints, and the
   responses returned are not all equal. *)
C25_Witness ==
  /\ dPc = "returned"
  /\ dCapped
  /\ Len(dPoints) > dMaxPoints
  /\ Len(dResult) = dMaxPoints
  /\ ResponseAt(1) > ResponseAt(Len(dResult))

====
